---- MODULE Spec2Model ----
(***************************************************************************)
(* Glance Clock BLE integration: the connection manager                    *)
(* (bluetooth/connection_manager.py) and the settings read/write paths of  *)
(* the notification service (notify.py), as state machines.                *)
(*                                                                         *)
(* Coroutines are processes; a process position (pc) is always an `await`  *)
(* of the source, and one action runs the code from one await to the next, *)
(* as the asyncio scheduler does.                                          *)
(***************************************************************************)
EXTENDS Integers, Sequences, FiniteSets, TLC

\* ------------------------------------------------------------- bounds
NumSenders == 1        \* concurrent send_command callers
MaxConn == 2           \* transport connection objects alive at one time
NumListeners == 2      \* connection listeners that may register
AttemptCap == 4        \* cap on the retry counter (guards the failure path)
MaxPartial == 1        \* fields in one settings_data dictionary
MaxPending == 1        \* delayed scene-stop tasks pending at one time
StartTime == 1         \* time.time() when the model starts
Horizon == 64          \* seconds of wall-clock time followed
SceneSpan == 6         \* of which the first ones in steps of the scene-stop delay
TickUnit == 30         \* granularity of the sleeps, in seconds
SinceCap == 330        \* the time since the last failure is followed up to here
MaxPayload == 3        \* longest payload body a read is decoded from
MaxPieces == 3         \* pieces a text handed to the encoder is made of
MaxPast == 2           \* forecast entries that lie before the current hour

\* ---------------------------------------------------- program constants
max_reconnect_attempts == 3
HealthCheckInterval == 60
BackoffBase == 30
Cooldown == 300
CacheTTL == 60
SceneStopDelay == 3

None == 0
Loop == 0
Senders == 1..NumSenders
Procs == {Loop} \cup Senders
Conns == 1..MaxConn
Listeners == 1..NumListeners

VARIABLES
    client,                \* self.client: None or a transport connection object
    connected,             \* transport objects whose is_connected is True
    transportUp,           \* the device currently accepts connections
    connection_task,       \* self._connection_task is set
    loops,                 \* maintenance tasks created and not yet finished
    cancelReq,             \* cancel() was called on the maintenance task
    is_connecting,         \* self._is_connecting
    reconnect_attempts,    \* self._reconnect_attempts
    connection_callbacks,  \* self._connection_callbacks (a list)
    proc,                  \* per coroutine: pc, timer, conn, idx
    stopPc, stopConn,      \* the stop_connection() caller
    notified, registered,  \* listeners invoked by / registered at the running notification
    ev,                    \* what the step just taken did or returned
    sinceFail,             \* seconds since the last failed connect attempt (-1: none yet)
    cached_settings,       \* self._cached_settings: NoSettings or a settings dict
    settings_read_time,    \* self._settings_read_time: NoTime or a time.time() stamp
    now,                   \* time.time(), in seconds
    lastPut,               \* history: the last cache_settings() not yet cleared
    dev,                   \* the settings payload the device holds
    wr,                    \* the async_write_settings() coroutine
    rd,                    \* the async_read_current_settings() coroutine
    readResult,            \* what async_read_current_settings() has just returned
    sceneStops,            \* delayed brightness-scene-stop tasks: seconds left
    wrote,                 \* history: the last successful write and what followed
    wire,                  \* frames the async_write_settings() call has handed to send_command
    text,                  \* the string handed to text_with_icons_to_bytes
    encoded,               \* what the encoder made of it
    forecast,              \* the hourly forecast list handed to the forecast service
    weather_state,         \* the weather entity's current temperature, if any
    built,                 \* what the forecast service made of them
    color                  \* the last colour interpolation: arguments and result

linkVars == <<client, connected, transportUp, connection_task, loops, cancelReq,
              is_connecting, reconnect_attempts, connection_callbacks, proc,
              stopPc, stopConn, notified, registered, sinceFail>>

cacheVars == <<cached_settings, settings_read_time, lastPut>>

\* arguments and results of the encoders and of the forecast service
callVars == <<text, encoded, forecast, weather_state, built, color>>

settingsVars == <<cacheVars, now, dev, wr, rd, readResult, sceneStops, wrote,
                  wire, callVars>>

vars == <<linkVars, ev, settingsVars>>

\* ------------------------------------------------------------ helpers
ConnectBody == {"establish", "notify", "backoff", "cooldown"}
InConnect(p) == proc[p].pc \in ConnectBody

\* `x and x.is_connected` for an object reference that may be None
ConnUp(c, conns) == c # None /\ c \in conns

\* GlanceClockConnectionManager.is_connected
IsConnected == ConnUp(client, connected)

\* transport objects nobody references any more
FreeConns == {c \in Conns : /\ c # client
                            /\ c \notin connected
                            /\ c # stopConn
                            /\ \A p \in Procs : proc[p].conn # c}
NewConn == CHOOSE c \in FreeConns : \A d \in FreeConns : c <= d

Idle == [pc |-> "idle", timer |-> 0, conn |-> None, idx |-> 0]
Dead == [pc |-> "dead", timer |-> 0, conn |-> None, idx |-> 0]

At(where) == [pc |-> where, timer |-> 0, conn |-> None, idx |-> 0]
Sleeping(where, secs) == [At(where) EXCEPT !.timer = secs]
Holding(where, c) == [At(where) EXCEPT !.conn = c]
Calling(i) == [At("notify") EXCEPT !.idx = i]

SetProc(p, r) == proc' = [proc EXCEPT ![p] = r]

\* list.remove(x): drops the first occurrence
RECURSIVE RemoveFirst(_, _)
RemoveFirst(s, x) ==
    IF s = <<>> THEN <<>>
    ELSE IF Head(s) = x THEN Tail(s)
    ELSE <<Head(s)>> \o RemoveFirst(Tail(s), x)

InList(s, x) == \E i \in 1..Len(s) : s[i] = x

\* one entity has registered its listener
OneListener == <<CHOOSE l \in Listeners : \A m \in Listeners : l <= m>>

\* a cancelled task runs nothing but its unwinding
Runnable(p) == p = Loop => ~cancelReq

\* ----------------------------------------------------------- _connect
\* _connect without its re-entry guard
ConnectGuardMissing == FALSE

\* line 172: the re-entry guard
ConnectGuard == is_connecting

\* lines 232-240: the sleep that follows the n-th consecutive failure
IsBackoff(n) == n < max_reconnect_attempts

\* a backoff that keeps growing by 30 seconds and never cools down
BackoffWaitLinear(n) == BackoffBase * n

\* a backoff of 30 seconds whatever the count
BackoffWaitFlat(n) == IF IsBackoff(n) THEN BackoffBase ELSE Cooldown

\* lines 233, 240: the length of that sleep
BackoffWait(n) == IF IsBackoff(n) THEN BackoffBase * n ELSE Cooldown

\* lines 226-240: the except branch up to its sleep; n is the counter after
\* line 227
AfterFailure(n) ==
    IF IsBackoff(n)
    THEN Sleeping("backoff", BackoffWait(n))
    ELSE Sleeping("cooldown", BackoffWait(n))

\* a send_command that starts with the write without response
FirstWriteUnacknowledged == "write_noack"

\* lines 293-297: the first write asks for a response
FirstWrite == "write_ack"

\* a send_command that writes whatever its inline connect came to
AfterConnectUnchecked(p, cl, conns) ==
    IF p = Loop THEN Sleeping("sleep60", HealthCheckInterval)
    ELSE Holding(FirstWrite, cl)

\* where the caller of _connect resumes: line 146 for the loop, line 285
\* for send_command
AfterConnect(p, cl, conns) ==
    IF p = Loop THEN Sleeping("sleep60", HealthCheckInterval)
    ELSE IF ConnUp(cl, conns) THEN Holding(FirstWrite, cl)
    ELSE Idle

\* what that step reports: send_command returns False at line 288
AfterConnectEv(p, cl, conns, e) ==
    IF p # Loop /\ ~ConnUp(cl, conns) THEN "send_fail" ELSE e

\* lines 176-198: take the flag and resolve the device; an unresolvable
\* device raises at once into the except branch. att is the retry counter
\* as the caller left it.
EnterConnect(p, att) ==
    /\ is_connecting' = TRUE
    /\ \E resolved \in (IF transportUp THEN {TRUE} ELSE {TRUE, FALSE}) :
        IF resolved
        THEN /\ SetProc(p, At("establish"))
             /\ reconnect_attempts' = att
             /\ sinceFail' = sinceFail
             /\ ev' = "attempt"
        ELSE /\ att < AttemptCap
             /\ SetProc(p, AfterFailure(att + 1))
             /\ reconnect_attempts' = att + 1
             /\ sinceFail' = 0
             /\ ev' = "attempt_failed"

\* lines 141-146: the head of one loop iteration
LoopHead(cl, conns, att) ==
    IF ~ConnUp(cl, conns) /\ ~is_connecting
    THEN EnterConnect(Loop, att)
    ELSE /\ SetProc(Loop, Sleeping("sleep60", HealthCheckInterval))
         /\ is_connecting' = is_connecting
         /\ reconnect_attempts' = att
         /\ sinceFail' = sinceFail
         /\ ev' = "none"

\* lines 27-34: the manager as constructed, apart from the link itself
InitManager ==
    /\ connection_task = FALSE
    /\ loops = 0
    /\ cancelReq = FALSE
    /\ is_connecting = FALSE
    /\ reconnect_attempts = 0
    /\ proc = [p \in Procs |-> IF p = Loop THEN Dead ELSE Idle]
    /\ stopPc = "idle"
    /\ stopConn = None
    /\ notified = <<>>
    /\ registered = <<>>
    /\ ev = "none"
    /\ sinceFail = -1

InitLink ==
    /\ client = None
    /\ connected = {}
    /\ InitManager

\* ------------------------------------------------ callback management
\* add_connection_callback (an entity registers once, when it is added)
AddListener(l) ==
    /\ ~InList(connection_callbacks, l)
    /\ connection_callbacks' = Append(connection_callbacks, l)
    /\ ev' = "none"
    /\ UNCHANGED <<settingsVars, client, connected, transportUp, connection_task, loops,
                   cancelReq, is_connecting, reconnect_attempts, proc,
                   stopPc, stopConn, notified, registered, sinceFail>>

\* remove_connection_callback
RemoveListener(l) ==
    /\ InList(connection_callbacks, l)
    /\ connection_callbacks' = RemoveFirst(connection_callbacks, l)
    /\ ev' = "none"
    /\ UNCHANGED <<settingsVars, client, connected, transportUp, connection_task, loops,
                   cancelReq, is_connecting, reconnect_attempts, proc,
                   stopPc, stopConn, notified, registered, sinceFail>>

\* ------------------------------------------------------- start / loop
\* start_connection without the check of line 108
StartGuardMissing == FALSE

\* line 108
StartGuard == connection_task

\* start_connection
Start ==
    /\ IF StartGuard
       THEN /\ ev' = "start_noop"
            /\ UNCHANGED <<connection_task, loops, cancelReq, proc>>
       ELSE /\ connection_task' = TRUE
            /\ loops' = loops + 1
            /\ cancelReq' = FALSE
            /\ SetProc(Loop, At("top"))
            /\ ev' = "start"
    /\ UNCHANGED <<settingsVars, client, connected, transportUp, is_connecting,
                   reconnect_attempts, connection_callbacks,
                   stopPc, stopConn, notified, registered, sinceFail>>

\* the new task's first step
LoopBegin ==
    /\ Runnable(Loop) /\ proc[Loop].pc = "top"
    /\ LoopHead(client, connected, reconnect_attempts)
    /\ UNCHANGED <<settingsVars, client, connected, transportUp, connection_task, loops,
                   cancelReq, connection_callbacks, stopPc, stopConn,
                   notified, registered>>

\* a loop that probes whatever the state of the link
LoopWakeAlwaysProbes ==
    /\ Runnable(Loop) /\ proc[Loop].pc = "sleep60" /\ proc[Loop].timer = 0
    /\ SetProc(Loop, Holding("probe", client))
    /\ ev' = "none"
    /\ UNCHANGED <<settingsVars, client, connected, transportUp, connection_task, loops,
                   cancelReq, is_connecting, reconnect_attempts, sinceFail,
                   connection_callbacks, stopPc, stopConn, notified, registered>>

\* line 146 returns; line 149 decides whether to probe
LoopWake ==
    /\ Runnable(Loop) /\ proc[Loop].pc = "sleep60" /\ proc[Loop].timer = 0
    /\ IF IsConnected
       THEN /\ SetProc(Loop, Holding("probe", client))
            /\ ev' = "none"
            /\ UNCHANGED <<is_connecting, reconnect_attempts, sinceFail>>
       ELSE LoopHead(client, connected, reconnect_attempts)
    /\ UNCHANGED <<settingsVars, client, connected, transportUp, connection_task, loops,
                   cancelReq, connection_callbacks, stopPc, stopConn,
                   notified, registered>>

\* lines 151-152: the probe read returns
ProbeOk ==
    /\ Runnable(Loop) /\ proc[Loop].pc = "probe"
    /\ proc[Loop].conn \in connected
    /\ LoopHead(client, connected, 0)
    /\ UNCHANGED <<settingsVars, client, connected, transportUp, connection_task, loops,
                   cancelReq, connection_callbacks, stopPc, stopConn,
                   notified, registered>>

\* lines 153-156, 246-254: the probe read raises; _disconnect either awaits
\* the transport's disconnect or clears the handle at once
ProbeFail ==
    /\ Runnable(Loop) /\ proc[Loop].pc = "probe"
    /\ IF IsConnected
       THEN /\ SetProc(Loop, Holding("probe_disc", client))
            /\ ev' = "none"
            /\ UNCHANGED <<client, is_connecting, reconnect_attempts, sinceFail>>
       ELSE /\ client' = None
            /\ LoopHead(None, connected, reconnect_attempts)
    /\ UNCHANGED <<settingsVars, connected, transportUp, connection_task, loops,
                   cancelReq, connection_callbacks, stopPc, stopConn,
                   notified, registered>>

\* lines 251-254: the transport's disconnect returns, or raises (caught)
\* and may then have left the link up
ProbeDisconnected ==
    /\ Runnable(Loop) /\ proc[Loop].pc = "probe_disc"
    /\ \E conns \in {connected \ {proc[Loop].conn}, connected} :
        /\ connected' = conns
        /\ client' = None
        /\ LoopHead(None, conns, reconnect_attempts)
    /\ UNCHANGED <<settingsVars, transportUp, connection_task, loops,
                   cancelReq, connection_callbacks, stopPc, stopConn,
                   notified, registered>>

\* lines 158-161 and the finally of line 243: CancelledError unwinds the
\* task from whichever await it is at
LoopCancelled ==
    /\ cancelReq /\ proc[Loop].pc # "dead"
    /\ is_connecting' = (IF InConnect(Loop) THEN FALSE ELSE is_connecting)
    /\ SetProc(Loop, Dead)
    /\ loops' = loops - 1
    /\ notified' = (IF proc[Loop].pc = "notify" THEN <<>> ELSE notified)
    /\ registered' = (IF proc[Loop].pc = "notify" THEN <<>> ELSE registered)
    /\ ev' = "cancelled"
    /\ UNCHANGED <<settingsVars, client, connected, transportUp, connection_task, cancelReq,
                   reconnect_attempts, connection_callbacks,
                   stopPc, stopConn, sinceFail>>

\* ------------------------------------------------- _connect, continued
\* lines 208-222: establish_connection returns a connected client; the
\* for loop of lines 59-66 calls the first listener, if there is one
EstablishOk(p) ==
    /\ Runnable(p) /\ proc[p].pc = "establish"
    /\ transportUp /\ FreeConns # {}
    /\ client' = NewConn
    /\ connected' = connected \cup {NewConn}
    /\ reconnect_attempts' = 0
    /\ IF connection_callbacks = <<>>
       THEN /\ SetProc(p, AfterConnect(p, NewConn, connected \cup {NewConn}))
            /\ is_connecting' = FALSE
            /\ UNCHANGED <<notified, registered>>
       ELSE /\ SetProc(p, Calling(1))
            /\ notified' = <<connection_callbacks[1]>>
            /\ registered' = connection_callbacks
            /\ UNCHANGED is_connecting
    /\ ev' = "connected"
    /\ UNCHANGED <<settingsVars, transportUp, connection_task, loops, cancelReq,
                   connection_callbacks, stopPc, stopConn, sinceFail>>

\* lines 208-227: establish_connection raises, or returns a client that is
\* no longer connected (line 224 raises); either way the except branch runs
EstablishFail(p) ==
    /\ Runnable(p) /\ proc[p].pc = "establish"
    /\ reconnect_attempts < AttemptCap
    /\ \/ /\ ~transportUp \/ FreeConns = {}
          /\ UNCHANGED client
       \/ /\ ~transportUp /\ FreeConns # {}
          /\ client' = NewConn
    /\ reconnect_attempts' = reconnect_attempts + 1
    /\ SetProc(p, AfterFailure(reconnect_attempts + 1))
    /\ sinceFail' = 0
    /\ ev' = "failed"
    /\ UNCHANGED <<settingsVars, connected, transportUp, connection_task, loops, cancelReq,
                   is_connecting, connection_callbacks, stopPc, stopConn,
                   notified, registered>>

\* lines 59-66: the awaited listener returns or raises (caught, logged) and
\* the iterator of the for loop moves on, over the list as it is now; past
\* its end _connect reaches its finally and returns
NotifyStep(p) ==
    /\ Runnable(p) /\ proc[p].pc = "notify"
    /\ IF proc[p].idx + 1 <= Len(connection_callbacks)
       THEN /\ SetProc(p, Calling(proc[p].idx + 1))
            /\ notified' = Append(notified, connection_callbacks[proc[p].idx + 1])
            /\ \E raised \in BOOLEAN :
                 ev' = IF raised THEN "listener_raised" ELSE "none"
            /\ UNCHANGED <<registered, is_connecting>>
       ELSE /\ SetProc(p, AfterConnect(p, client, connected))
            /\ notified' = <<>>
            /\ registered' = <<>>
            /\ is_connecting' = FALSE
            /\ ev' = AfterConnectEv(p, client, connected, "notify_done")
    /\ UNCHANGED <<settingsVars, client, connected, transportUp, connection_task, loops,
                   cancelReq, reconnect_attempts, connection_callbacks,
                   stopPc, stopConn, sinceFail>>

\* lines 235, 243-244: the backoff sleep is over
BackoffDone(p) ==
    /\ Runnable(p) /\ proc[p].pc = "backoff" /\ proc[p].timer = 0
    /\ is_connecting' = FALSE
    /\ SetProc(p, AfterConnect(p, client, connected))
    /\ ev' = AfterConnectEv(p, client, connected, "none")
    /\ UNCHANGED <<settingsVars, client, connected, transportUp, connection_task, loops,
                   cancelReq, reconnect_attempts, connection_callbacks,
                   stopPc, stopConn, notified, registered, sinceFail>>

\* a manager that gives the device up after the third failure
CooldownNeverEnds(p) ==
    /\ proc[p].pc = "cooldown" /\ proc[p].timer = 0
    /\ UNCHANGED vars

\* lines 240-244: the cooldown is over, the counter starts again
CooldownDone(p) ==
    /\ Runnable(p) /\ proc[p].pc = "cooldown" /\ proc[p].timer = 0
    /\ reconnect_attempts' = 0
    /\ is_connecting' = FALSE
    /\ SetProc(p, AfterConnect(p, client, connected))
    /\ ev' = AfterConnectEv(p, client, connected, "none")
    /\ UNCHANGED <<settingsVars, client, connected, transportUp, connection_task, loops,
                   cancelReq, connection_callbacks,
                   stopPc, stopConn, notified, registered, sinceFail>>

\* ------------------------------------------------------- send_command
\* lines 280-288
SendCall(p) ==
    /\ proc[p].pc = "idle"
    /\ IF IsConnected
       THEN /\ SetProc(p, Holding(FirstWrite, client))
            /\ ev' = "none"
            /\ UNCHANGED <<is_connecting, reconnect_attempts, sinceFail>>
       ELSE IF ConnectGuard
       THEN /\ SetProc(p, Idle)
            /\ ev' = "reentrant"
            /\ UNCHANGED <<is_connecting, reconnect_attempts, sinceFail>>
       ELSE EnterConnect(p, reconnect_attempts)
    /\ UNCHANGED <<settingsVars, client, connected, transportUp, connection_task, loops,
                   cancelReq, connection_callbacks, stopPc, stopConn,
                   notified, registered>>

\* lines 293-298, 310: the acknowledged write succeeds
WriteAckOk(p) ==
    /\ proc[p].pc = "write_ack" /\ proc[p].conn \in connected
    /\ SetProc(p, Idle)
    /\ ev' = "send_ok"
    /\ UNCHANGED <<settingsVars, client, connected, transportUp, connection_task, loops,
                   cancelReq, is_connecting, reconnect_attempts,
                   connection_callbacks, stopPc, stopConn,
                   notified, registered, sinceFail>>

\* lines 299-307, 312-315: the acknowledged write raises; the fallback
\* dereferences self.client again, which raises if it is None by now
\* (_disconnect then finds nothing to disconnect)
WriteAckFail(p) ==
    /\ proc[p].pc = "write_ack"
    /\ IF client # None
       THEN /\ SetProc(p, Holding("write_noack", client))
            /\ ev' = "ack_failed"
       ELSE /\ SetProc(p, Idle)
            /\ ev' = "send_raised"
    /\ UNCHANGED <<settingsVars, client, connected, transportUp, connection_task, loops,
                   cancelReq, is_connecting, reconnect_attempts,
                   connection_callbacks, stopPc, stopConn,
                   notified, registered, sinceFail>>

\* lines 303-310: the unacknowledged write succeeds
WriteNoAckOk(p) ==
    /\ proc[p].pc = "write_noack" /\ proc[p].conn \in connected
    /\ SetProc(p, Idle)
    /\ ev' = "send_ok"
    /\ UNCHANGED <<settingsVars, client, connected, transportUp, connection_task, loops,
                   cancelReq, is_connecting, reconnect_attempts,
                   connection_callbacks, stopPc, stopConn,
                   notified, registered, sinceFail>>

\* a send_command whose except branch returns False without _disconnect
WriteNoAckFailKeepsHandle(p) ==
    /\ proc[p].pc = "write_noack"
    /\ SetProc(p, Idle)
    /\ ev' = "send_raised"
    /\ UNCHANGED <<settingsVars, client, connected, transportUp, connection_task,
                   loops, cancelReq, is_connecting, reconnect_attempts,
                   connection_callbacks, stopPc, stopConn,
                   notified, registered, sinceFail>>

\* lines 312-315, 246-254: both writes raised
WriteNoAckFail(p) ==
    /\ proc[p].pc = "write_noack"
    /\ IF IsConnected
       THEN /\ SetProc(p, Holding("send_disc", client))
            /\ ev' = "none"
            /\ UNCHANGED client
       ELSE /\ client' = None
            /\ SetProc(p, Idle)
            /\ ev' = "send_raised"
    /\ UNCHANGED <<settingsVars, connected, transportUp, connection_task, loops,
                   cancelReq, is_connecting, reconnect_attempts,
                   connection_callbacks, stopPc, stopConn,
                   notified, registered, sinceFail>>

\* lines 251-254, 315
SendDisconnected(p) ==
    /\ proc[p].pc = "send_disc"
    /\ \E conns \in {connected \ {proc[p].conn}, connected} :
        connected' = conns
    /\ client' = None
    /\ SetProc(p, Idle)
    /\ ev' = "send_raised"
    /\ UNCHANGED <<settingsVars, transportUp, connection_task, loops,
                   cancelReq, is_connecting, reconnect_attempts,
                   connection_callbacks, stopPc, stopConn,
                   notified, registered, sinceFail>>

\* ---------------------------------------------------- stop_connection
\* line 126: the disconnect phase, entered with the handle cl
StopDisconnectPhase(cl, conns) ==
    IF ConnUp(cl, conns)
    THEN /\ stopPc' = "disconnecting"
         /\ stopConn' = cl
         /\ ev' = "none"
    ELSE /\ stopPc' = "idle"
         /\ stopConn' = None
         /\ ev' = "stop_ok"

\* lines 118-121 or, with no task, 126-130
StopCall ==
    /\ stopPc = "idle"
    /\ IF connection_task
       THEN /\ cancelReq' = TRUE
            /\ stopPc' = "await_task"
            /\ ev' = "none"
            /\ UNCHANGED stopConn
       ELSE /\ StopDisconnectPhase(client, connected)
            /\ UNCHANGED cancelReq
    /\ UNCHANGED <<settingsVars, client, connected, transportUp, connection_task, loops,
                   is_connecting, reconnect_attempts, connection_callbacks,
                   proc, notified, registered, sinceFail>>

\* lines 121-126: the cancelled task has finished
StopTaskDone ==
    /\ stopPc = "await_task" /\ proc[Loop].pc = "dead"
    /\ connection_task' = FALSE
    /\ cancelReq' = FALSE
    /\ StopDisconnectPhase(client, connected)
    /\ UNCHANGED <<settingsVars, client, connected, transportUp, loops,
                   is_connecting, reconnect_attempts, connection_callbacks,
                   proc, notified, registered, sinceFail>>

\* lines 127-130: the transport's disconnect returns
StopDisconnected ==
    /\ stopPc = "disconnecting"
    /\ connected' = connected \ {stopConn}
    /\ client' = None
    /\ stopPc' = "idle" /\ stopConn' = None
    /\ ev' = "stop_ok"
    /\ UNCHANGED <<settingsVars, transportUp, connection_task, loops, cancelReq,
                   is_connecting, reconnect_attempts, connection_callbacks,
                   proc, notified, registered, sinceFail>>

\* line 127 raises: nothing catches it, stop_connection raises
StopDisconnectRaises ==
    /\ stopPc = "disconnecting"
    /\ \E conns \in {connected \ {stopConn}, connected} :
        connected' = conns
    /\ stopPc' = "idle" /\ stopConn' = None
    /\ ev' = "stop_raised"
    /\ UNCHANGED <<settingsVars, client, transportUp, connection_task, loops, cancelReq,
                   is_connecting, reconnect_attempts, connection_callbacks,
                   proc, notified, registered, sinceFail>>

\* -------------------------------------------------------- environment
\* a disconnect callback that also starts the retry count again
DeviceDropResetsCounter(c) ==
    /\ c \in connected
    /\ connected' = connected \ {c}
    /\ client' = None
    /\ reconnect_attempts' = 0
    /\ is_connecting' = FALSE
    /\ ev' = "dropped"
    /\ UNCHANGED <<settingsVars, transportUp, connection_task, loops, cancelReq,
                   connection_callbacks, proc, stopPc, stopConn, notified,
                   registered, sinceFail>>

\* the device drops the link; the transport clears is_connected and calls
\* the disconnected_callback, _on_disconnect (lines 256-263)
DeviceDrop(c) ==
    /\ c \in connected
    /\ connected' = connected \ {c}
    /\ client' = None
    /\ ev' = "dropped"
    /\ UNCHANGED <<settingsVars, transportUp, connection_task, loops, cancelReq,
                   is_connecting, reconnect_attempts, connection_callbacks,
                   proc, stopPc, stopConn, notified, registered, sinceFail>>

\* the device comes into or goes out of reach
TransportChange ==
    /\ transportUp' = ~transportUp
    /\ ev' = "none"
    /\ UNCHANGED <<settingsVars, client, connected, connection_task, loops, cancelReq,
                   is_connecting, reconnect_attempts, connection_callbacks,
                   proc, stopPc, stopConn, notified, registered, sinceFail>>

\* a sleep runs out
Elapse(p) ==
    /\ proc[p].timer > 0
    /\ SetProc(p, [proc[p] EXCEPT !.timer = 0])
    /\ ev' = "none"
    /\ UNCHANGED <<settingsVars, client, connected, transportUp, connection_task, loops,
                   cancelReq, is_connecting, reconnect_attempts,
                   connection_callbacks, stopPc, stopConn,
                   notified, registered, sinceFail>>


\* ------------------------------------------------ read_characteristic
\* a read_characteristic that connects first, the way send_command does
ReadCharCallConnects(p) ==
    /\ proc[p].pc = "idle"
    /\ IF IsConnected
       THEN /\ SetProc(p, Holding("read_char", client))
            /\ ev' = "none"
            /\ UNCHANGED <<is_connecting, reconnect_attempts, sinceFail>>
       ELSE /\ ~ConnectGuard
            /\ EnterConnect(p, reconnect_attempts)
    /\ UNCHANGED <<settingsVars, client, connected, transportUp, connection_task,
                   loops, cancelReq, connection_callbacks, stopPc, stopConn,
                   notified, registered>>

\* lines 329-333: raises at once when the link is not connected, else
\* awaits the transport's read
ReadCharCall(p) ==
    /\ proc[p].pc = "idle"
    /\ IF IsConnected
       THEN /\ SetProc(p, Holding("read_char", client))
            /\ ev' = "none"
       ELSE /\ SetProc(p, Idle)
            /\ ev' = "read_not_connected"
    /\ UNCHANGED <<settingsVars, client, connected, transportUp, connection_task,
                   loops, cancelReq, is_connecting, reconnect_attempts,
                   connection_callbacks, stopPc, stopConn,
                   notified, registered, sinceFail>>

\* line 333: read_gatt_char returns the bytes
ReadCharOk(p) ==
    /\ proc[p].pc = "read_char" /\ proc[p].conn \in connected
    /\ SetProc(p, Idle)
    /\ ev' = "read_bytes"
    /\ UNCHANGED <<settingsVars, client, connected, transportUp, connection_task,
                   loops, cancelReq, is_connecting, reconnect_attempts,
                   connection_callbacks, stopPc, stopConn,
                   notified, registered, sinceFail>>

\* line 333: read_gatt_char raises, and nothing here catches it
ReadCharFail(p) ==
    /\ proc[p].pc = "read_char"
    /\ SetProc(p, Idle)
    /\ ev' = "read_raised"
    /\ UNCHANGED <<settingsVars, client, connected, transportUp, connection_task,
                   loops, cancelReq, is_connecting, reconnect_attempts,
                   connection_callbacks, stopPc, stopConn,
                   notified, registered, sinceFail>>

\* ------------------------------------- notify.py: the guarded operations
\* a guarded operation that forgets the failures counted so far when it
\* finds the link down
FacadeCallResetsCounter(p) ==
    /\ proc[p].pc = "idle"
    /\ IF ~IsConnected
       THEN /\ SetProc(p, Idle)
            /\ ev' = "refused"
            /\ reconnect_attempts' = 0
       ELSE /\ SetProc(p, Holding(FirstWrite, client))
            /\ ev' = "accepted"
            /\ UNCHANGED reconnect_attempts
    /\ UNCHANGED <<settingsVars, client, connected, transportUp, connection_task,
                   loops, cancelReq, is_connecting,
                   connection_callbacks, stopPc, stopConn,
                   notified, registered, sinceFail>>

\* lines 23, 168, 345, 363, 381, 399, 500: async_send_timer,
\* async_send_notice, async_update_data, async_brightness_scene_start,
\* async_brightness_scene_stop, async_write_settings and
\* async_send_forecast all open with the same test and return False on a
\* link that is not connected; on a connected link the first await of each
\* is the acknowledged write of send_command (connection_manager.py
\* 281, 293), reached without an await in between
FacadeCall(p) ==
    /\ proc[p].pc = "idle"
    /\ IF ~IsConnected
       THEN /\ SetProc(p, Idle)
            /\ ev' = "refused"
       ELSE /\ SetProc(p, Holding(FirstWrite, client))
            /\ ev' = "accepted"
    /\ UNCHANGED <<settingsVars, client, connected, transportUp, connection_task,
                   loops, cancelReq, is_connecting, reconnect_attempts,
                   connection_callbacks, stopPc, stopConn,
                   notified, registered, sinceFail>>
\* ------------------------------------------------ the settings cache
\* (connection_manager.py, lines 70-95)
NoSettings == <<>>

\* a cache that still serves a snapshot that is exactly 60 seconds old
get_cached_settings_inclusive ==
    IF /\ cached_settings # NoSettings
       /\ settings_read_time # None
       /\ now - settings_read_time <= CacheTTL
    THEN cached_settings
    ELSE NoSettings

\* lines 72-80: `if a and b` is truthiness, so a stamp of None and a stamp
\* of 0 read alike and both are modelled as None
get_cached_settings ==
    IF /\ cached_settings # NoSettings
       /\ settings_read_time # None
       /\ now - settings_read_time < CacheTTL
    THEN cached_settings
    ELSE NoSettings

\* lines 82-90
cache_settings(s) ==
    /\ cached_settings' = s
    /\ settings_read_time' = now
    /\ lastPut' = [val |-> s, at |-> now]

\* lines 92-95
clear_settings_cache ==
    /\ cached_settings' = NoSettings
    /\ settings_read_time' = None
    /\ lastPut' = NoSettings

\* ------------------------------------------------- the settings schema
Fields == <<"nightModeEnabled", "pointsAlwaysEnabled", "displayBrightness",
            "timeModeEnable", "timeFormat12", "permanentDND",
            "permanentMute", "dateFormat", "mgrUserActivityTimeout">>
FieldSet == {Fields[i] : i \in 1..Len(Fields)}

\* notify.py lines 419-429 (booleans as 0 and 1)
DefaultSettings ==
    [nightModeEnabled |-> 1, pointsAlwaysEnabled |-> 0,
     displayBrightness |-> 128, timeModeEnable |-> 1, timeFormat12 |-> 0,
     permanentDND |-> 0, permanentMute |-> 0, dateFormat |-> 0,
     mgrUserActivityTimeout |-> 600]

\* a device set up differently in every field
OtherSettings ==
    [nightModeEnabled |-> 0, pointsAlwaysEnabled |-> 1,
     displayBrightness |-> 64, timeModeEnable |-> 0, timeFormat12 |-> 1,
     permanentDND |-> 1, permanentMute |-> 1, dateFormat |-> 2,
     mgrUserActivityTimeout |-> 30]

\* a new Settings() message
ZeroSettings == [f \in FieldSet |-> 0]

FieldValues(f) == {DefaultSettings[f], OtherSettings[f]}
AllValues == UNION {FieldValues(f) : f \in FieldSet}

\* the settings_data dictionaries a caller passes: a switch, the
\* brightness, a selector, or several of them
PartialFields == {"nightModeEnabled", "displayBrightness", "dateFormat"}
Partials ==
    UNION {{p \in [S -> AllValues] : \A f \in S : p[f] \in FieldValues(f)} :
           S \in {T \in SUBSET PartialFields : Cardinality(T) <= MaxPartial}}

\* a merge in which the base wins over the caller's fields
UpdateBaseWins(base, partial) ==
    [f \in DOMAIN base \cup DOMAIN partial |->
        IF f \in DOMAIN base THEN base[f] ELSE partial[f]]

\* lines 433-434: dict.copy() and dict.update()
Update(base, partial) ==
    [f \in DOMAIN base \cup DOMAIN partial |->
        IF f \in DOMAIN partial THEN partial[f] ELSE base[f]]

\* lines 437-448: the message fields, each .get() with its default
ToMessage(d) ==
    [f \in FieldSet |-> IF f \in DOMAIN d THEN d[f] ELSE DefaultSettings[f]]

\* ---------------------------------- the schema encoding (glance_pb2)
\* key byte (field number * 8, wire type 0) and a base-128 varint per field
RECURSIVE Varint(_)
Varint(n) ==
    IF n < 128 THEN <<n>> ELSE <<128 + (n % 128)>> \o Varint(n \div 128)

RECURSIVE SerializeFrom(_, _)
SerializeFrom(m, i) ==
    IF i > Len(Fields) THEN <<>>
    ELSE <<8 * i>> \o Varint(m[Fields[i]]) \o SerializeFrom(m, i + 1)

SerializeToString(m) == SerializeFrom(m, 1)

RECURSIVE ReadVarint(_)
ReadVarint(b) ==
    IF b = <<>> THEN [ok |-> FALSE, val |-> 0, rest |-> <<>>]
    ELSE IF Head(b) < 128 THEN [ok |-> TRUE, val |-> Head(b), rest |-> Tail(b)]
    ELSE LET r == ReadVarint(Tail(b))
         IN  [r EXCEPT !.val = (Head(b) - 128) + 128 * r.val]

RECURSIVE ParseInto(_, _)
ParseInto(b, m) ==
    IF b = <<>> THEN [ok |-> TRUE, msg |-> m]
    ELSE IF Head(b) % 8 # 0 \/ Head(b) \div 8 \notin 1..Len(Fields)
    THEN [ok |-> FALSE, msg |-> m]
    ELSE LET r == ReadVarint(Tail(b))
         IN  IF r.ok
             THEN ParseInto(r.rest, [m EXCEPT ![Fields[Head(b) \div 8]] = r.val])
             ELSE [ok |-> FALSE, msg |-> m]

ParseFromString(b) == ParseInto(b, ZeroSettings)

\* ------------------------------------------ decoding a settings read
\* (notify.py, lines 277-320)
DataTag == <<68, 97, 116, 97>>

Drop(s, n) == SubSeq(s, n + 1, Len(s))

\* a decoder that knows the descriptor framing only
StripFramingTagOnly(raw) ==
    IF Len(raw) >= 4 /\ SubSeq(raw, 1, 4) = DataTag
    THEN Drop(raw, 5)
    ELSE raw

\* lines 277-290
StripFraming(raw) ==
    IF Len(raw) > 0
    THEN IF Len(raw) >= 4 /\ SubSeq(raw, 1, 4) = DataTag
         THEN Drop(raw, 5)
         ELSE IF raw[1] = 5 THEN Drop(raw, 1) ELSE raw
    ELSE raw

\* lines 294-320: None or the nine-field dictionary
DecodeSettings(raw) ==
    LET protobuf_data == StripFraming(raw)
        parsed == ParseFromString(protobuf_data)
    IN  IF Len(protobuf_data) = 0 \/ ~parsed.ok
        THEN NoSettings
        ELSE [f \in FieldSet |-> parsed.msg[f]]

\* what the device answers to a read of the settings characteristic: its
\* payload in one of the three framings
Framings == {"descriptor", "prefixed", "bare"}
Framed(kind, payload) ==
    IF kind = "descriptor" THEN DataTag \o <<0>> \o payload
    ELSE IF kind = "prefixed" THEN <<5>> \o payload
    ELSE payload

\* lines 451-455: header [5, 0, 0, 0] and the serialized message
SettingsFrame(m) == <<5, 0, 0, 0>> \o SerializeToString(m)

\* the settings the device holds
DeviceSettings == ParseFromString(dev).msg
\* --------------------------------------------- notify.py: the commands
UpdateDataCommand == <<35>>          \* line 351
SceneStartCommand == <<61>>          \* line 369
SceneStopCommand == <<60>>           \* line 387

IdleWriter == [pc |-> "idle", partial |-> <<>>, msg |-> NoSettings,
               frame |-> <<>>]
NoWrite == [state |-> "none", pre |-> NoSettings, partial |-> <<>>,
            sent |-> NoSettings]

\* a write that takes every change for a brightness change
IsBrightnessChangeAlways(partial) == TRUE

\* a write that never takes a change for a brightness change
IsBrightnessChangeNever(partial) == FALSE

\* line 404
IsBrightnessChange(partial) == "displayBrightness" \in DOMAIN partial

\* lines 417-448: from the settings read to the message; current is what
\* async_read_current_settings returned
BuildMessage(current, partial) ==
    LET current_settings == IF current = NoSettings
                            THEN DefaultSettings ELSE current
    IN  ToMessage(Update(current_settings, partial))

\* lines 417-459: the writer with its frame ready, at the send
Sending(w, current) ==
    [w EXCEPT !.pc = "send",
              !.msg = BuildMessage(current, w.partial),
              !.frame = SettingsFrame(BuildMessage(current, w.partial))]

\* a step that is neither the write's return nor the read after it: the
\* value the last read returned is gone with its caller
Forget ==
    /\ wrote' = NoWrite
    /\ readResult' = NoSettings

\* no encoder and no forecast service has run yet
NotEncoded == [by |-> "none", raised |-> FALSE, bytes |-> <<>>]
NotBuilt == [sent |-> FALSE]
NoColor == [args |-> <<>>]

\* a step of somebody else: the frames of a call that has returned are
\* followed no further
OtherStep == wire' = IF wr.pc = "idle" THEN <<>> ELSE wire

\* nothing cached, nothing in flight
InitHandlers ==
    /\ cached_settings = NoSettings
    /\ settings_read_time = None
    /\ lastPut = NoSettings
    /\ now = StartTime
    /\ wr = IdleWriter
    /\ rd = "idle"
    /\ readResult = NoSettings
    /\ sceneStops = <<>>
    /\ wrote = NoWrite
    /\ wire = <<>>
    /\ text = <<>> /\ encoded = NotEncoded
    /\ built = NotBuilt
    /\ color = NoColor

InitService ==
    /\ InitHandlers
    /\ forecast = <<>> /\ weather_state = <<>>

InitSettings ==
    /\ InitService
    /\ dev = SerializeToString(DefaultSettings)

\* ------------------------------------------------ async_write_settings
\* lines 399-410 and 363-369 or 345-351: not connected, or the priming
\* command is handed to the transport
WriteCall(partial) ==
    /\ wr.pc = "idle"
    /\ IsBrightnessChange(partial) => Len(sceneStops) < MaxPending
    /\ IF ~IsConnected
       THEN /\ ev' = "write_fail"
            /\ UNCHANGED wr
       ELSE /\ wr' = [pc |-> "prime", partial |-> partial,
                      msg |-> NoSettings,
                      frame |-> IF IsBrightnessChange(partial)
                                THEN SceneStartCommand
                                ELSE UpdateDataCommand]
            /\ ev' = "none"
    /\ Forget
    /\ wire' = IF IsConnected
               THEN <<IF IsBrightnessChange(partial)
                       THEN SceneStartCommand ELSE UpdateDataCommand>>
               ELSE <<>>
    /\ UNCHANGED <<linkVars, callVars, cacheVars, now, dev, rd, sceneStops>>

\* lines 413-459, 231-275: the priming write is done (its result is not
\* looked at); the settings come from the cache, and the frame goes out, or
\* the settings characteristic is read
PrimeDone ==
    /\ wr.pc = "prime"
    /\ IF get_cached_settings # NoSettings \/ ~IsConnected
       THEN wr' = Sending(wr, get_cached_settings)
       ELSE wr' = [wr EXCEPT !.pc = "read", !.frame = <<>>]
    /\ ev' = "none"
    /\ Forget
    /\ UNCHANGED wire
    /\ UNCHANGED <<linkVars, callVars, cacheVars, now, dev, rd, sceneStops>>

\* lines 275-335, 417-459: the read returns; decode, cache, merge, send
WriteReadDone(kind) ==
    /\ wr.pc = "read"
    /\ LET current == DecodeSettings(Framed(kind, dev))
       IN  /\ IF current # NoSettings
              THEN cache_settings(current)
              ELSE UNCHANGED cacheVars
           /\ wr' = Sending(wr, current)
    /\ ev' = "none"
    /\ Forget
    /\ UNCHANGED wire
    /\ UNCHANGED <<linkVars, callVars, now, dev, rd, sceneStops>>

\* lines 459-470: the settings frame is written, the device keeps its
\* payload; a brightness change leaves a delayed scene-stop task behind
SettingsSent ==
    /\ wr.pc = "send"
    /\ dev' = Drop(wr.frame, 4)
    /\ sceneStops' = IF IsBrightnessChange(wr.partial)
                     THEN Append(sceneStops, SceneStopDelay)
                     ELSE sceneStops
    /\ wrote' = [state |-> "returned", pre |-> DeviceSettings,
                 partial |-> wr.partial,
                 sent |-> wr.msg]
    /\ readResult' = NoSettings
    /\ wr' = IdleWriter
    /\ ev' = "write_ok"
    /\ wire' = Append(wire, wr.frame)
    /\ UNCHANGED <<linkVars, callVars, cacheVars, now, rd>>

\* lines 460, 472-474, connection_manager.py 312-315: send_command could
\* not write the settings frame, has disconnected and returned False
SettingsSendFailed ==
    /\ wr.pc = "send" /\ IsConnected
    /\ client' = None
    /\ connected' = connected \ {client}
    /\ wr' = IdleWriter
    /\ ev' = "write_fail"
    /\ Forget
    /\ wire' = Append(wire, wr.frame)
    /\ UNCHANGED <<transportUp, connection_task, loops, cancelReq, is_connecting,
                   reconnect_attempts, connection_callbacks, proc, stopPc,
                   stopConn, notified, registered, sinceFail>>
    /\ UNCHANGED <<callVars, cacheVars, now, dev, rd, sceneStops>>

\* lines 480-487, 379-395: a delayed task wakes and sends the scene stop,
\* unless the link is down by then
SceneStop ==
    /\ sceneStops # <<>> /\ Head(sceneStops) = 0
    /\ sceneStops' = Tail(sceneStops)
    /\ ev' = IF IsConnected THEN "scene_stop" ELSE "scene_stop_skipped"
    /\ Forget
    /\ OtherStep
    /\ UNCHANGED <<linkVars, callVars, cacheVars, now, dev, wr, rd>>

\* ----------------------------------------- async_read_current_settings
\* history: this read is the one that follows the write at once
ReadFollows(returns) ==
    wrote' = IF wrote.state = "returned"
             THEN [wrote EXCEPT !.state = IF returns THEN "read" ELSE "reading"]
             ELSE NoWrite

\* a read that does not look into the cache
ReadCallIgnoresCache ==
    /\ rd = "idle"
    /\ IF ~IsConnected
       THEN /\ readResult' = NoSettings
            /\ ev' = "read_none"
            /\ ReadFollows(TRUE)
            /\ UNCHANGED rd
       ELSE /\ rd' = "read"
            /\ ev' = "none"
            /\ ReadFollows(FALSE)
            /\ readResult' = NoSettings
    /\ OtherStep
    /\ UNCHANGED <<linkVars, callVars, cacheVars, now, dev, wr, sceneStops>>

\* lines 231-275: a cached snapshot, no link, or the read is started
ReadCall ==
    /\ rd = "idle"
    /\ IF get_cached_settings # NoSettings
       THEN /\ readResult' = get_cached_settings
            /\ ev' = "read_ok"
            /\ ReadFollows(TRUE)
            /\ UNCHANGED rd
       ELSE IF ~IsConnected
       THEN /\ readResult' = NoSettings
            /\ ev' = "read_none"
            /\ ReadFollows(TRUE)
            /\ UNCHANGED rd
       ELSE /\ rd' = "read"
            /\ ev' = "none"
            /\ ReadFollows(FALSE)
            /\ readResult' = NoSettings
    /\ OtherStep
    /\ UNCHANGED <<linkVars, callVars, cacheVars, now, dev, wr, sceneStops>>

\* a read that empties the cache when it cannot decode what it got
ReadDoneDropsCache(kind) ==
    /\ rd = "read"
    /\ LET settings_dict == DecodeSettings(Framed(kind, dev))
       IN  /\ IF settings_dict # NoSettings
              THEN cache_settings(settings_dict)
              ELSE clear_settings_cache
           /\ readResult' = settings_dict
           /\ ev' = IF settings_dict # NoSettings THEN "read_ok" ELSE "read_none"
    /\ rd' = "idle"
    /\ wrote' = IF wrote.state = "reading"
                THEN [wrote EXCEPT !.state = "read"] ELSE NoWrite
    /\ OtherStep
    /\ UNCHANGED <<linkVars, callVars, now, dev, wr, sceneStops>>

\* lines 268-274, 277, 335-337: connect() or read_gatt_char raises or
\* times out; the inner except logs it, line 277 then finds raw_data
\* unbound and the outer except returns None
ReadRaised ==
    /\ rd = "read"
    /\ readResult' = NoSettings
    /\ ev' = "read_failed"
    /\ rd' = "idle"
    /\ wrote' = IF wrote.state = "reading"
                THEN [wrote EXCEPT !.state = "read"] ELSE NoWrite
    /\ OtherStep
    /\ UNCHANGED <<linkVars, callVars, cacheVars, now, dev, wr, sceneStops>>

\* lines 275-335: the read returns
ReadDone(kind) ==
    /\ rd = "read"
    /\ LET settings_dict == DecodeSettings(Framed(kind, dev))
       IN  /\ IF settings_dict # NoSettings
              THEN cache_settings(settings_dict)
              ELSE UNCHANGED cacheVars
           /\ readResult' = settings_dict
           /\ ev' = IF settings_dict # NoSettings THEN "read_ok" ELSE "read_none"
    /\ rd' = "idle"
    /\ wrote' = IF wrote.state = "reading"
                THEN [wrote EXCEPT !.state = "read"] ELSE NoWrite
    /\ OtherStep
    /\ UNCHANGED <<linkVars, callVars, now, dev, wr, sceneStops>>

\* ------------------------------------------------------------- time
\* d seconds pass, within the first `until` seconds
RECURSIVE CountDown(_, _)
CountDown(timers, d) ==
    IF timers = <<>> THEN <<>>
    ELSE <<IF Head(timers) > d THEN Head(timers) - d ELSE 0>>
         \o CountDown(Tail(timers), d)

Tick(d, until) ==
    /\ now + d <= StartTime + until
    /\ now' = now + d
    /\ sceneStops' = CountDown(sceneStops, d)
    /\ ev' = "none"
    /\ Forget
    /\ OtherStep
    /\ UNCHANGED <<linkVars, callVars, cacheVars, dev, wr, rd>>

\* ------------------------------------ direct calls of the cache methods
CachePut(s) ==
    /\ cache_settings(s)
    /\ ev' = "put"
    /\ UNCHANGED wire
    /\ UNCHANGED <<linkVars, callVars, now, dev, wr, rd, readResult, sceneStops, wrote>>

CacheClear ==
    /\ clear_settings_cache
    /\ ev' = "clear"
    /\ UNCHANGED wire
    /\ UNCHANGED <<linkVars, callVars, now, dev, wr, rd, readResult, sceneStops, wrote>>

\* ------------------------------ notify.py: text_with_icons_to_bytes
\* strings are sequences of code points
\* line 177: the pattern \[icon:(\d+)\] tried at position i; the index of
\* the closing bracket of the match, 0 if there is no match at i
IconMatchEnd(s, i) ==
    IF i + 5 <= Len(s) /\ SubSeq(s, i, i + 5) = <<91, 105, 99, 111, 110, 58>>
    THEN LET closes == {j \in (i + 7)..Len(s) :
                          /\ s[j] = 93
                          /\ \A k \in (i + 6)..(j - 1) : s[k] \in 48..57}
         IN  IF closes = {} THEN 0 ELSE CHOOSE j \in closes : TRUE
    ELSE 0

\* line 185: int() of a string of decimal digits
RECURSIVE DecimalValue(_)
DecimalValue(digits) ==
    IF digits = <<>> THEN 0
    ELSE 10 * DecimalValue(SubSeq(digits, 1, Len(digits) - 1))
         + (digits[Len(digits)] - 48)

\* lines 178-189: the list `parts` built from position i on
RECURSIVE IconParts(_, _)
IconParts(s, i) ==
    IF i > Len(s) THEN <<>>
    ELSE IF IconMatchEnd(s, i) > 0
    THEN <<DecimalValue(SubSeq(s, i + 6, IconMatchEnd(s, i) - 1))>>
         \o IconParts(s, IconMatchEnd(s, i) + 1)
    ELSE <<s[i] % 128>> \o IconParts(s, i + 1)

\* lines 175-190 (async_send_notice): bytes(parts) raises ValueError when
\* an element is above 255
text_with_icons_to_bytes(s) ==
    LET parts == IconParts(s, 1)
        fits == \A k \in 1..Len(parts) : parts[k] <= 255
    IN  [raised |-> ~fits, bytes |-> IF fits THEN parts ELSE <<>>]

\* lines 33-44 (async_send_timer): the same function, defined again
timer_text_with_icons_to_bytes(s) ==
    LET parts == IconParts(s, 1)
        fits == \A k \in 1..Len(parts) : parts[k] <= 255
    IN  [raised |-> ~fits, bytes |-> IF fits THEN parts ELSE <<>>]

\* the texts callers pass: "Hi[icon:7]!" and whatever up to MaxPieces of
\* these pieces spell: H, e-acute, [icon: , 7, ], [icon:7], [icon:300]
EncoderTexts ==
    LET pieces == {<<72>>, <<233>>, <<91, 105, 99, 111, 110, 58>>, <<55>>, <<93>>,
                   <<91, 105, 99, 111, 110, 58, 55, 93>>,
                   <<91, 105, 99, 111, 110, 58, 51, 48, 48, 93>>}
        RECURSIVE Spell(_)
        Spell(ps) == IF ps = <<>> THEN <<>> ELSE Head(ps) \o Spell(Tail(ps))
    IN  {Spell(ps) : ps \in UNION {[1..n -> pieces] : n \in 0..MaxPieces}}
        \cup {<<72, 105, 91, 105, 99, 111, 110, 58, 55, 93, 33>>}

\* lines 194 and 53, 67, 71: a notice or a timer encodes the text t
EncodeText(t, by) ==
    /\ text' = t
    /\ encoded' = [by |-> by,
                   raised |-> IF by = "notice"
                              THEN text_with_icons_to_bytes(t).raised
                              ELSE timer_text_with_icons_to_bytes(t).raised,
                   bytes |-> IF by = "notice"
                             THEN text_with_icons_to_bytes(t).bytes
                             ELSE timer_text_with_icons_to_bytes(t).bytes]
    /\ ev' = "encoded"
    /\ UNCHANGED <<linkVars, cacheVars, now, dev, wr, rd, readResult,
                   sceneStops, wrote, wire, forecast, weather_state, built, color>>

\* --------------------------------------- services/forecast.py
\* A forecast entry is [dict, datetime, temperature]: dict says whether it
\* is a dictionary at all; datetime is <<h>>, the hour it parses to, or <<>>
\* when it is missing or does not parse; temperature is <<t>>, the integer
\* int(float(.)) gives, or <<>> when it is missing or does not parse.
\* Optional integers (None in the code) are <<>> or <<n>>.

\* lines 167-201: the index the 24 hours start at, counted from 0
current_hour_index(fc, current_hour) ==
    LET dated == {i \in 1..Len(fc) : fc[i].dict /\ fc[i].datetime # <<>>}
        reached == {i \in dated : fc[i].datetime[1] >= current_hour}
        First(S) == CHOOSE i \in S : \A j \in S : i <= j
    IN  IF reached # {} THEN First(reached) - 1
        ELSE IF dated # {} THEN First(dated) - 1
        ELSE 0

\* a builder that leaves the list as long as it is
pad_to_24_never(temps) == temps

\* lines 256-258: repeat the last element up to 24, cut at 24
pad_to_24(temps) ==
    [i \in 1..24 |-> IF i <= Len(temps) THEN temps[i]
                     ELSE IF temps = <<>> THEN 20 ELSE temps[Len(temps)]]

\* lines 203-263: _process_forecast_data; next to the five values it
\* returns, the record holds its locals current_hour_index and
\* forecast_temps
process_forecast_data(fc, current_temp, current_hour) ==
    LET index == current_hour_index(fc, current_hour)
        taken == SubSeq(fc, index + 1,
                        IF index + 24 <= Len(fc) THEN index + 24 ELSE Len(fc))
        forecast_24h ==
            IF Len(fc) > 0
            THEN [i \in 1..24 |-> IF i <= Len(taken) THEN taken[i] ELSE fc[Len(fc)]]
            ELSE taken
        first23 == SubSeq(forecast_24h, 1,
                          IF Len(forecast_24h) < 23 THEN Len(forecast_24h) ELSE 23)
        hours == SelectSeq(first23, LAMBDA hour : hour.dict)
        forecast_temps ==
            [i \in 1..Len(hours) |->
                IF hours[i].temperature # <<>> THEN hours[i].temperature[1] ELSE 20]
        parsed == {hours[i].temperature[1] :
                     i \in {j \in 1..Len(hours) : hours[j].temperature # <<>>}}
        counted == parsed \cup {current_temp[i] : i \in 1..Len(current_temp)}
        temps == pad_to_24(
                   (IF current_temp # <<>> THEN current_temp
                    ELSE IF forecast_temps # <<>> THEN <<forecast_temps[1]>>
                    ELSE <<20>>) \o forecast_temps)
        range == {temps[i] : i \in 1..Len(temps)}
    IN  [temps |-> temps,
         current_hour_index |-> index,
         forecast_temps |-> forecast_temps,
         actual_min_temp |-> CHOOSE t \in range : \A u \in range : t <= u,
         actual_max_temp |-> CHOOSE t \in range : \A u \in range : t >= u,
         forecast_min_temp |->
             IF counted = {} THEN <<>>
             ELSE <<CHOOSE t \in counted : \A u \in counted : t <= u>>,
         forecast_max_temp |->
             IF counted = {} THEN <<>>
             ELSE <<CHOOSE t \in counted : \A u \in counted : t >= u>>]

\* lines 120-122: struct.pack('<h', temp) for every temp; struct.error
\* for a value that is no signed 16-bit integer
pack_values(temps) ==
    LET fits == \A i \in 1..Len(temps) : temps[i] \in -32768..32767
    IN  [raised |-> ~fits,
         bytes |-> IF fits
                   THEN [k \in 1..(2 * Len(temps)) |->
                           IF k % 2 = 1
                           THEN (temps[(k + 1) \div 2] % 65536) % 256
                           ELSE (temps[k \div 2] % 65536) \div 256]
                   ELSE <<>>]

\* lines 289-296 of _calculate_gradient_colors: `x or d` is d when x is
\* None and when x is 0
gradient_range(forecast_min_temp, forecast_max_temp, user_min_value, user_max_value) ==
    IF user_min_value # <<>> /\ user_max_value # <<>>
    THEN <<user_min_value[1], user_max_value[1]>>
    ELSE <<IF forecast_min_temp = <<>> \/ forecast_min_temp = <<0>>
           THEN 0 ELSE forecast_min_temp[1],
           IF forecast_max_temp = <<>> \/ forecast_max_temp = <<0>>
           THEN 30 ELSE forecast_max_temp[1]>>

\* lines 132-133 and notify.py 537-538: the max and min fields of the
\* ForecastScene, `forecast_max_temp or 30` and `forecast_min_temp or 0`
scene_range(forecast_min_temp, forecast_max_temp) ==
    [max |-> IF forecast_max_temp = <<>> \/ forecast_max_temp = <<0>>
             THEN 30 ELSE forecast_max_temp[1],
     min |-> IF forecast_min_temp = <<>> \/ forecast_min_temp = <<0>>
             THEN 0 ELSE forecast_min_temp[1]]

\* the hourly lists a weather entity answers with: n entries an hour
\* apart, `past` of them before the hour h, with temperatures that rise, lie
\* below zero, are all zero, are missing in places, among entries that are
\* no dictionaries, under dates that do not parse, or behind a first entry
\* without a date
ForecastLists(h) ==
    LET Entry(kind, past, i) ==
            [dict |-> ~(kind = "junk" /\ i % 5 = 0),
             datetime |-> IF kind = "undated" \/ (kind = "headless" /\ i = 1)
                          THEN <<>> ELSE <<h - past + i - 1>>,
             temperature |->
                 IF kind = "rising" THEN <<5 + (i % 9)>>
                 ELSE IF kind = "frost" THEN <<0 - (i % 4) - 1>>
                 ELSE IF kind = "zero" THEN <<0>>
                 ELSE IF kind = "gaps" /\ i % 3 = 0 THEN <<>>
                 ELSE <<10 + (i % 2)>>]
    IN  {[i \in 1..n |-> Entry(kind, past, i)] :
            n \in {0, 1, 2, 23, 24, 25, 100}, past \in 0..MaxPast,
            kind \in {"rising", "frost", "zero", "gaps", "junk", "undated",
                      "headless"}}

\* lines 78-139: handle_send_forecast from the forecast and the state of
\* the weather entity to what it hands to async_send_forecast, and the
\* range async_send_forecast puts into the ForecastScene; an empty list
\* is given up at line 78
SendForecast(user_min_value, user_max_value) ==
    LET data == process_forecast_data(forecast, weather_state, now)
    IN  /\ built' = [sent |-> forecast # <<>>,
                     data |-> data,
                     values |-> pack_values(data.temps),
                     user |-> <<user_min_value, user_max_value>>,
                     scene |-> scene_range(data.forecast_min_temp,
                                           data.forecast_max_temp),
                     gradient |-> gradient_range(data.forecast_min_temp,
                                                 data.forecast_max_temp,
                                                 user_min_value, user_max_value)]
        /\ ev' = "forecast"
        /\ UNCHANGED <<linkVars, cacheVars, now, dev, wr, rd, readResult,
                       sceneStops, wrote, wire, text, encoded, forecast,
                       weather_state, color>>

\* ------------------------------------------- utils/color_utils.py
\* lines 6-12: hex_to_rgb
hex_to_rgb(hex_color) ==
    <<(hex_color \div 65536) % 256, (hex_color \div 256) % 256, hex_color % 256>>

\* lines 15-17: rgb_to_hex; the channels it is given are below 256, so
\* that the bitwise or of the shifted channels is their sum
rgb_to_hex(r, g, b) == r * 65536 + g * 256 + b

\* lines 69 and 76-79: int(low + (high - low) * factor) for the factor
\* num / den, computed in binary floating point.  The factor is exact when
\* it is a binary fraction; otherwise the product is rounded, and where
\* the exact result is a whole number the rounded one may lie just below
\* it, which int() truncates to one less.  A product of 0 is exact.
interpolate_channel(low, high, num, den) ==
    LET scaled == low * den + (high - low) * num
        exact == scaled \div den
        binary == \E k \in 0..16 : (num * 2^k) % den = 0
    IN  IF binary \/ high = low \/ scaled % den # 0 THEN {exact}
        ELSE {exact, exact - 1}

\* a clamp that lets every value through
clamp_never(value, min_val, max_val) == value

\* line 66: max(min_val, min(max_val, value))
clamp(value, min_val, max_val) ==
    LET upper == IF max_val < value THEN max_val ELSE value
    IN  IF min_val > upper THEN min_val ELSE upper

\* lines 60-81: interpolate_color, the set of results floating point
\* can give
interpolate_color(value, min_val, max_val, min_color, max_color) ==
    IF max_val = min_val THEN {min_color}
    ELSE LET num == clamp(value, min_val, max_val) - min_val
             den == max_val - min_val
             lo == hex_to_rgb(min_color)
             hi == hex_to_rgb(max_color)
         IN  {rgb_to_hex(r, g, b) :
                 r \in interpolate_channel(lo[1], hi[1], num, den),
                 g \in interpolate_channel(lo[2], hi[2], num, den),
                 b \in interpolate_channel(lo[3], hi[3], num, den)}

\* the 24-bit colours of the calls: black, white, the defaults 0xFF0000
\* and 0x0000FF of the forecast service, and two mixed ones
GradientColors == {0, 16777215, 16711680, 255, 1193046, 8453889}

\* the ranges (min_val, max_val): widths 10, 20 and 30, one that starts
\* below zero and one that is empty
GradientRanges == {<<0, 10>>, <<0, 20>>, <<0, 30>>, <<-5, 25>>, <<10, 10>>}

\* lines 300-305 of services/forecast.py: a call of interpolate_color
Interpolate(value, min_val, max_val, min_color, max_color) ==
    /\ \E hex \in interpolate_color(value, min_val, max_val, min_color, max_color) :
          color' = [args |-> <<value, min_val, max_val, min_color, max_color>>,
                    hex |-> hex]
    /\ ev' = "interpolated"
    /\ UNCHANGED <<linkVars, cacheVars, now, dev, wr, rd, readResult,
                   sceneStops, wrote, wire, text, encoded, forecast,
                   weather_state, built>>
\* ------------------------------------------------ timed sleeps (link)
\* TickUnit seconds pass for every sleeping coroutine
TimePasses ==
    /\ \E p \in Procs : proc[p].timer > 0
    /\ proc' = [p \in Procs |->
                 [proc[p] EXCEPT !.timer = IF @ > TickUnit THEN @ - TickUnit ELSE 0]]
    /\ sinceFail' = IF sinceFail < 0 THEN sinceFail
                    ELSE IF sinceFail + TickUnit < SinceCap
                    THEN sinceFail + TickUnit ELSE SinceCap
    /\ ev' = "none"
    /\ UNCHANGED <<settingsVars, client, connected, transportUp, connection_task, loops,
                   cancelReq, is_connecting, reconnect_attempts,
                   connection_callbacks, stopPc, stopConn, notified, registered>>

\* ------------------------------------- the link manager, all operations
Init ==
    /\ InitLink
    /\ InitSettings
    /\ transportUp \in BOOLEAN
    /\ connection_callbacks = OneListener

LoopRun ==
    \/ LoopBegin \/ LoopWake \/ ProbeOk \/ ProbeFail \/ ProbeDisconnected

LoopStep == LoopRun \/ LoopCancelled

ConnectStep(p) ==
    \/ EstablishOk(p) \/ EstablishFail(p) \/ NotifyStep(p)
    \/ BackoffDone(p) \/ CooldownDone(p)

SendStep(p) ==
    \/ WriteAckOk(p) \/ WriteAckFail(p) \/ WriteNoAckOk(p)
    \/ WriteNoAckFail(p) \/ SendDisconnected(p)

StopStep == StopTaskDone \/ StopDisconnected \/ StopDisconnectRaises

Next ==
    \/ Start
    \/ StopCall
    \/ StopStep
    \/ LoopStep
    \/ \E p \in Procs : ConnectStep(p)
    \/ \E p \in Senders : SendCall(p) \/ SendStep(p)
    \/ \E c \in Conns : DeviceDrop(c)
    \/ TransportChange
    \/ \E p \in Procs : Elapse(p)

Spec == Init /\ [][Next]_vars

\* ------------------- the loop alone, listeners coming and going
InitNotify ==
    /\ InitLink
    /\ InitSettings
    /\ transportUp \in BOOLEAN
    /\ connection_callbacks = <<>>

NextNotify ==
    \/ Start
    \/ LoopRun
    \/ ConnectStep(Loop)
    \/ \E l \in Listeners : AddListener(l) \/ RemoveListener(l)
    \/ \E c \in Conns : DeviceDrop(c)
    \/ TransportChange
    \/ Elapse(Loop)

SpecNotify == InitNotify /\ [][NextNotify]_vars

\* --------------- a transport that refuses every connect, with a clock
InitRetry ==
    /\ InitLink
    /\ InitSettings
    /\ transportUp = FALSE
    /\ connection_callbacks = OneListener

NextRetry ==
    \/ Start
    \/ LoopBegin
    \/ LoopWake
    \/ \E p \in Procs : EstablishFail(p) \/ BackoffDone(p) \/ CooldownDone(p)
    \/ \E p \in Senders : SendCall(p)
    \/ TimePasses

SpecRetry == InitRetry /\ [][NextRetry]_vars

\* ------------- the running manager under a fair scheduler, never stopped,
\* with senders whose writes succeed
NextLive ==
    \/ Start
    \/ LoopRun
    \/ \E p \in Procs : ConnectStep(p)
    \/ \E p \in Senders : SendCall(p) \/ WriteAckOk(p)
    \/ \E c \in Conns : DeviceDrop(c)
    \/ TransportChange
    \/ \E p \in Procs : Elapse(p)

\* the event loop runs every coroutine that can run, and sleeps end
Fairness ==
    /\ WF_vars(LoopRun)
    /\ \A p \in Procs : WF_vars(ConnectStep(p)) /\ WF_vars(Elapse(p))
    /\ \A p \in Senders : WF_vars(WriteAckOk(p))

SpecLive == Init /\ [][NextLive]_vars /\ Fairness

\* ------------------------------------------ the cache methods, with a clock
InitCache ==
    /\ InitLink
    /\ InitSettings
    /\ transportUp = FALSE
    /\ connection_callbacks = <<>>

NextCache ==
    \/ \E s \in {DefaultSettings, OtherSettings} : CachePut(s)
    \/ CacheClear
    \/ \E d \in {1, CacheTTL - 1} : Tick(d, Horizon)

SpecCache == InitCache /\ [][NextCache]_vars

\* ------------- settings reads and writes over a link that stays as it is
\* (up, with a transport whose reads and writes succeed, or down); the
\* device holds a settings message or answers a read with no bytes
FirstConn == CHOOSE c \in Conns : \A d \in Conns : c <= d

InitSettingsService ==
    /\ InitManager
    /\ InitService
    /\ \/ client = None /\ connected = {} /\ transportUp = FALSE
       \/ client = FirstConn /\ connected = {FirstConn} /\ transportUp = TRUE
    /\ connection_callbacks = OneListener
    /\ dev \in {SerializeToString(DefaultSettings), SerializeToString(OtherSettings),
               <<>>}

\* time passes until the oldest delayed task is due
SceneWait ==
    /\ sceneStops # <<>> /\ Head(sceneStops) > 0
    /\ Tick(Head(sceneStops), SceneSpan)

NextSettings ==
    \/ \E partial \in Partials : WriteCall(partial)
    \/ PrimeDone
    \/ \E kind \in Framings : WriteReadDone(kind)
    \/ SettingsSent
    \/ SettingsSendFailed
    \/ SceneStop
    \/ ReadCall
    \/ \E kind \in Framings : ReadDone(kind)
    \/ SceneWait
    \/ Tick(CacheTTL, Horizon)

SpecSettings == InitSettingsService /\ [][NextSettings]_vars

\* ------------------- the running manager with callers that only read
ReadStep(p) == ReadCharOk(p) \/ ReadCharFail(p)

NextRead ==
    \/ Start
    \/ LoopRun
    \/ ConnectStep(Loop)
    \/ \E p \in Senders : ReadCharCall(p) \/ ReadStep(p)
    \/ \E c \in Conns : DeviceDrop(c)
    \/ TransportChange
    \/ Elapse(Loop)

SpecRead == Init /\ [][NextRead]_vars

\* ------------- the running manager with callers that send and read
NextCallers ==
    \/ Start
    \/ LoopRun
    \/ \E p \in Procs : ConnectStep(p)
    \/ \E p \in Senders : SendCall(p) \/ SendStep(p)
    \/ \E p \in Senders : ReadCharCall(p) \/ ReadStep(p)
    \/ \E c \in Conns : DeviceDrop(c)
    \/ TransportChange
    \/ \E p \in Procs : Elapse(p)

SpecCallers == Init /\ [][NextCallers]_vars

\* ------------- settings reads of a device that answers with any bytes
\* what the device holds: tag bytes, small values, a continuation byte and
\* the marker, behind nothing or behind something that looks like framing
DecodePayloads ==
    LET bytes == {1, 5, 8, 72, 200}
        heads == {<<>>, <<5>>, <<68>>, DataTag, DataTag \o <<0>>}
        bodies == UNION {[1..n -> bytes] : n \in 0..MaxPayload}
                  \cup {SerializeToString(DefaultSettings),
                        SerializeToString(OtherSettings)}
    IN  {h \o b : h \in heads, b \in bodies}

InitDecode ==
    /\ InitManager
    /\ InitService
    /\ client = FirstConn /\ connected = {FirstConn} /\ transportUp = TRUE
    /\ connection_callbacks = OneListener
    /\ dev \in DecodePayloads

NextDecode ==
    \/ ReadCall
    \/ \E kind \in Framings : ReadDone(kind)
    \/ ReadRaised
    \/ Tick(CacheTTL, Horizon)

SpecDecode == InitDecode /\ [][NextDecode]_vars

\* ------------------------------------------- the two text encoders
NextText ==
    \E t \in EncoderTexts, by \in {"notice", "timer"} : EncodeText(t, by)

SpecText == Init /\ [][NextText]_vars

\* ------------------------------------------- the forecast service
\* the weather entity holds any of the hourly lists and a current
\* temperature that is absent, below, inside or above the forecast
InitForecast ==
    /\ InitManager
    /\ InitHandlers
    /\ client = FirstConn /\ connected = {FirstConn} /\ transportUp = TRUE
    /\ connection_callbacks = OneListener
    /\ dev = SerializeToString(DefaultSettings)
    /\ forecast \in ForecastLists(StartTime)
    /\ weather_state \in {<<>>, <<-30>>, <<8>>, <<50>>}

NextForecast ==
    \E user \in {<< <<>>, <<>> >>, << <<-10>>, <<40>> >>, << <<5>>, <<>> >>} :
        SendForecast(user[1], user[2])

SpecForecast == InitForecast /\ [][NextForecast]_vars

\* ------------------------------------------- colour interpolation
NextColor ==
    \E value \in {-5, 0, 5, 7, 10, 15, 20, 25, 40}, range \in GradientRanges,
       min_color \in GradientColors, max_color \in GradientColors :
        Interpolate(value, range[1], range[2], min_color, max_color)

SpecColor == Init /\ [][NextColor]_vars

\* ------------- the running manager with callers of the guarded
\* operations of the notification service
InitFacade ==
    /\ InitLink
    /\ InitHandlers
    /\ forecast = <<>> /\ weather_state = <<>>
    /\ dev = SerializeToString(DefaultSettings)
    /\ transportUp \in BOOLEAN
    /\ connection_callbacks = OneListener

NextFacade ==
    \/ Start
    \/ LoopRun
    \/ \E p \in Procs : ConnectStep(p)
    \/ \E p \in Senders : FacadeCall(p) \/ SendStep(p)
    \/ \E c \in Conns : DeviceDrop(c)
    \/ TransportChange
    \/ \E p \in Procs : Elapse(p)

SpecFacade == InitFacade /\ [][NextFacade]_vars
\* =====================================================================
\* Properties
\* =====================================================================

\* C1 (SpecSettings): a write_settings(partial) that returned success and is
\* followed at once by read_current_settings() reads back a snapshot in which
\* every field of partial has its new value and every other field has the
\* value the device held before the write.
C1_WriteReadRoundTrip ==
    wrote.state = "read" =>
        /\ readResult # NoSettings
        /\ \A f \in FieldSet :
             readResult[f] = IF f \in DOMAIN wrote.partial
                             THEN wrote.partial[f] ELSE wrote.pre[f]

\* C2 (SpecSettings): when write_settings has returned success the cache
\* serves nothing or exactly the nine-field snapshot that was written, never
\* the snapshot from before the write.
C2_CacheAfterWrite ==
    wrote.state = "returned" =>
        get_cached_settings \in {NoSettings, wrote.sent}

\* C3 (SpecCache): get_cached_settings returns a snapshot exactly when one
\* was put, not cleared since, and less than 60 seconds ago, and then it is
\* the snapshot put; cache_settings stamps the current time; clearing drops
\* the snapshot and the stamp.
C3_CacheFreshness ==
    /\ get_cached_settings # NoSettings
         <=> (lastPut # NoSettings /\ now - lastPut.at < 60)
    /\ get_cached_settings # NoSettings => get_cached_settings = lastPut.val
    /\ ev = "put" => cached_settings = lastPut.val /\ settings_read_time = now
    /\ ev = "clear" => cached_settings = NoSettings /\ settings_read_time = None

\* C3 witness: a snapshot put exactly 60 seconds ago is no longer served
C3_ExpiredAtSixty ==
    /\ lastPut # NoSettings
    /\ now - lastPut.at = 60
    /\ get_cached_settings = NoSettings

\* C4 (SpecRetry): with a transport that fails every connect, an attempt
\* that starts after the third failure in a row starts at least 300 seconds
\* after it and finds the retry counter at 0, an attempt after the k-th
\* failure (k = 1, 2) starts at least 30*k seconds after it, every failure
\* raises the counter by one, up to 3, so the failure after a cooldown
\* counts as attempt 1, and the counter stands at 3 only during a cooldown.
C4_Entering(p) == proc[p].pc \notin ConnectBody /\ proc'[p].pc \in ConnectBody

C4_Step ==
    /\ \A p \in Procs :
         C4_Entering(p) /\ sinceFail >= 0 =>
            \/ reconnect_attempts \in {1, 2}
                 /\ sinceFail >= 30 * reconnect_attempts
            \/ reconnect_attempts = 0 /\ sinceFail >= 300
    /\ ev' \in {"failed", "attempt_failed"} =>
         /\ reconnect_attempts' = reconnect_attempts + 1
         /\ reconnect_attempts' <= 3
    /\ reconnect_attempts' = 3 => \E p \in Procs : proc'[p].pc = "cooldown"

C4_CooldownAfterThree == [][C4_Step]_vars

\* C4 witness: an attempt in flight after a cooldown, counter at 0
C4_AttemptAfterCooldown ==
    \E p \in Procs :
        /\ proc[p].pc = "establish"
        /\ reconnect_attempts = 0
        /\ sinceFail >= 300

\* C5 (SpecLive): while the maintenance loop runs and the link is down, a
\* connect attempt is eventually made (or the link is up again); and under
\* the fair scheduler, if from some time on the transport accepts
\* connections, the link is connected again and again.
C5_LoopAlive == proc[Loop].pc # "dead"
C5_Attempt == ev \in {"attempt", "attempt_failed"}
C5_Accepting == transportUp /\ FreeConns # {}

C5_EventuallyConnects ==
    /\ [](C5_LoopAlive /\ ~IsConnected => <>(C5_Attempt \/ IsConnected))
    /\ (<>[]C5_Accepting => [](C5_LoopAlive => <>IsConnected))

\* C5 witness: the link is up after an earlier attempt had failed
C5_ConnectedAfterFailure ==
    /\ C5_LoopAlive
    /\ IsConnected
    /\ sinceFail >= 0

\* C6 (Spec): at most one coroutine is inside the body of _connect and the
\* in-progress flag is set exactly while one is (so it is cleared on every
\* way out); a send that finds the flag set returns at once and leaves the
\* transport, the handle and the retry counter as they were.
C6_OneInFlight ==
    /\ Cardinality({p \in Procs : InConnect(p)}) <= 1
    /\ is_connecting <=> \E p \in Procs : InConnect(p)

C6_Reentry ==
    ev' = "reentrant" =>
        /\ UNCHANGED <<client, connected, reconnect_attempts, is_connecting>>
        /\ \A p \in Procs : InConnect(p) <=> proc'[p].pc \in ConnectBody

C6_SingleConnectInFlight == []C6_OneInFlight /\ [][C6_Reentry]_vars

\* C6 witness: a send has just returned because a connect was in flight
C6_ReentrantCall == ev = "reentrant" /\ is_connecting

C8_OneLoop ==
    /\ loops <= 1
    /\ loops = 1 <=> proc[Loop].pc # "dead"
    /\ loops = 1 => connection_task

C8_StartNoop == ev' = "start_noop" => UNCHANGED <<linkVars, settingsVars>>

C8_AtMostOneLoop == []C8_OneLoop /\ [][C8_StartNoop]_vars

\* C8 witness: start_connection was called while the loop was running
C8_SecondStart == ev = "start_noop" /\ loops = 1

\* C9 (Spec): stop_connection never raises, not even when the transport's
\* disconnect does, and when it has returned no maintenance task runs and
\* no connected handle is held.
C9_StopIsSafe ==
    /\ ev # "stop_raised"
    /\ ev = "stop_ok" => loops = 0 /\ ~connection_task /\ ~IsConnected

\* C10 (SpecNotify): a successful connect sets the retry counter to 0 and
\* calls every listener registered at that moment exactly once, in
\* registration order; a listener that raises does not stop the others.
C10_CalledOfRegistered ==
    SelectSeq(notified, LAMBDA l : InList(registered, l))

C10_Step ==
    /\ ev' = "connected" => reconnect_attempts' = 0
    /\ ev' = "notify_done" => C10_CalledOfRegistered = registered

C10_EveryListenerOnce == [][C10_Step]_vars

\* the awaits of send_command's write phase
WritePhase == {"write_ack", "write_noack", "send_disc"}

\* C11 (Spec): send_command called on a link that is not connected makes
\* one inline _connect call and no second one; when that call returns with
\* the link still not connected (the attempt failed, or another connect
\* was in flight and the call returned at once), send_command returns
\* False without having written; when it returns with the link connected,
\* send_command goes on to its first write.
C11_Step(p) ==
    /\ (proc[p].pc = "idle" /\ ~IsConnected /\ proc'[p] # proc[p]) =>
          /\ proc'[p].pc \in ConnectBody
          /\ ~is_connecting /\ is_connecting'
    /\ ev' = "reentrant" =>
          /\ ~IsConnected /\ is_connecting
          /\ UNCHANGED <<proc, client, connected, is_connecting, reconnect_attempts>>
    /\ (proc[p].pc \in ConnectBody /\ proc'[p].pc \notin ConnectBody) =>
          IF ConnUp(client', connected')
          THEN proc'[p] = Holding(FirstWrite, client')
          ELSE proc'[p] = Idle /\ ev' = "send_fail"
    /\ (proc'[p].pc = "establish" /\ proc[p].pc # "establish") =>
          proc[p].pc = "idle"
    /\ proc[p].pc \in WritePhase => proc'[p].pc \notin ConnectBody

C11_OneInlineConnect == [][\A p \in Senders : C11_Step(p)]_vars

\* C11 witness: an inline connect has returned with the link still not
\* connected and send_command has returned False
C11_SendFailedAfterConnect ==
    /\ ev = "send_fail"
    /\ ~IsConnected
    /\ \A p \in Senders : proc[p].pc \notin WritePhase

\* C12 (Spec): send_command's write phase starts with the acknowledged
\* write; the unacknowledged write is issued only after the acknowledged
\* one has raised; True is returned only out of a write that went through
\* on a live transport, which ends the call, so no call writes twice
\* successfully; every other way out of the write phase returns False.
C12_Step(p) ==
    /\ (proc[p].pc \notin WritePhase /\ proc'[p].pc \in WritePhase) =>
          proc'[p].pc = "write_ack"
    /\ (proc'[p].pc = "write_noack" /\ proc[p].pc # "write_noack") =>
          proc[p].pc = "write_ack" /\ ev' = "ack_failed"
    /\ proc[p].pc \in {"write_noack", "send_disc"} => proc'[p].pc # "write_ack"
    /\ (proc[p].pc \in WritePhase /\ proc'[p].pc \notin WritePhase) =>
          /\ proc'[p] = Idle
          /\ ev' \in {"send_ok", "send_raised"}
          /\ ev' = "send_ok" =>
                /\ proc[p].pc \in {"write_ack", "write_noack"}
                /\ proc[p].conn \in connected

C12_AckThenFallback == [][\A p \in Senders : C12_Step(p)]_vars

\* C12 witness: the acknowledged write has raised on a live transport and
\* the unacknowledged write of the same call is under way
C12_FallbackIssued ==
    /\ ev = "ack_failed"
    /\ \E p \in Senders : proc[p].pc = "write_noack" /\ proc[p].conn \in connected

\* C13 (Spec): when an exception has escaped send_command's write phase,
\* send_command returns False and at that moment the handle is None, so
\* the link reports not connected.
C13_HandleClearedOnFailure ==
    ev = "send_raised" => client = None /\ ~IsConnected

\* C13 witness: both writes have raised on a link that was up, and
\* send_command has returned False
C13_BothWritesRaised ==
    /\ ev = "send_raised"
    /\ \A p \in Senders : proc[p] = Idle
    /\ connected # {}

\* C14 (SpecRead): read_characteristic called on a link that is not
\* connected raises at once: no connect attempt starts, and the handle,
\* the connecting flag and the retry counter are what they were.
C14_Step(p) ==
    /\ (proc[p].pc = "idle" /\ proc'[p] # proc[p]) =>
          IsConnected /\ proc'[p] = Holding("read_char", client)
    /\ ev' = "read_not_connected" =>
          /\ ~IsConnected
          /\ UNCHANGED <<proc, client, connected, is_connecting, reconnect_attempts>>

C14_ReadNeverConnects == [][\A p \in Senders : C14_Step(p)]_vars

\* C14 witness: a read was refused while the loop's own connect attempt
\* was in flight
C14_ReadRefused == ev = "read_not_connected" /\ is_connecting

\* C15 (SpecCallers): whatever the transport does - a write or a read
\* that raises, a connect that fails, a link dropped at an await - every
\* operation of the manager ends by returning its result to the caller;
\* none ends by raising.
C15_EveryOperationReturns ==
    ev \notin {"read_not_connected", "read_raised"}

\* a settings read has just returned
C16_ReadReturned == rd = "idle" /\ ev \in {"read_ok", "read_none"}

\* the payload cannot be taken for a framed one: it starts neither with
\* the marker byte nor with the tag
C16_Unambiguous(p) ==
    /\ ~(Len(p) >= 1 /\ p[1] = 5)
    /\ ~(Len(p) >= 4 /\ SubSeq(p, 1, 4) = DataTag)

\* C16 as stated (SpecDecode): whatever bytes p the device holds, a read
\* returns the same result - a snapshot or nothing - in whichever of the
\* three framings the bytes arrive.
C16_FramingsAgree ==
    C16_ReadReturned =>
        \A kind \in Framings : readResult = DecodeSettings(Framed(kind, dev))

\* C16 as amended (SpecDecode): the three framings of p decode to the same
\* result for every payload p that does not itself start with the marker
\* byte 0x05 or with the tag 'Data'.
C16_FramingsAgreeUnambiguous ==
    (C16_ReadReturned /\ C16_Unambiguous(dev)) =>
        \A kind \in Framings : readResult = DecodeSettings(Framed(kind, dev))

\* C16 witness: a snapshot has been decoded from a device whose payload
\* is a serialized settings message
C16_SnapshotDecoded ==
    /\ C16_ReadReturned /\ C16_Unambiguous(dev)
    /\ dev = SerializeToString(OtherSettings)
    /\ readResult = [f \in FieldSet |-> OtherSettings[f]]

\* position k of the text lies inside an icon token, behind its first
\* character
C17_InsideToken(s, k) ==
    \E i \in 1..(k - 1) : IconMatchEnd(s, i) >= k

\* the bytes the claim describes: in source order one byte per icon token,
\* the token's number, and one byte per character outside the tokens, its
\* code point masked to 7 bits
C17_Expected(s) ==
    LET kept == SelectSeq([k \in 1..Len(s) |-> k],
                          LAMBDA k : ~C17_InsideToken(s, k))
    IN  [n \in 1..Len(kept) |->
            IF IconMatchEnd(s, kept[n]) > 0
            THEN DecimalValue(SubSeq(s, kept[n] + 6,
                                     IconMatchEnd(s, kept[n]) - 1))
            ELSE s[kept[n]] % 128]

\* C17 (SpecText): the encoder returns, for every text, one byte per
\* character outside the icon tokens (the code point masked to 7 bits) and
\* one byte per token (its number), in source order; "Hi[icon:7]!" gives
\* 48 69 07 21; the notice encoder and the timer encoder return the same.
C17_TextEncoding ==
    encoded.by # "none" =>
        /\ ~encoded.raised
        /\ encoded.bytes = C17_Expected(text)
        /\ text = <<72, 105, 91, 105, 99, 111, 110, 58, 55, 93, 33>> =>
              encoded.bytes = <<72, 105, 7, 33>>
        /\ text_with_icons_to_bytes(text) = timer_text_with_icons_to_bytes(text)

\* the priming command the claim asks for: 0x3D for a brightness change,
\* 0x23 otherwise
C18_Priming(partial) ==
    IF "displayBrightness" \in DOMAIN partial THEN <<61>> ELSE <<35>>

\* what the read of the running call has returned: the fresh cache entry
\* or, without one, the decoded answer of the device
C18_ReadResults ==
    IF wr.pc = "prime" THEN {get_cached_settings}
    ELSE {DecodeSettings(Framed(kind, dev)) : kind \in Framings}

C18_Frames ==
    /\ wr.pc \in {"prime", "read", "send"} => wire = <<C18_Priming(wr.partial)>>
    /\ ev = "write_ok" =>
          wire = <<C18_Priming(wrote.partial), <<5, 0, 0, 0>>
                   \o SerializeToString(wrote.sent)>>
    /\ \A i \in 1..Len(wire) :
          (Len(wire[i]) >= 4 /\ SubSeq(wire[i], 1, 4) = <<5, 0, 0, 0>>) =>
              i = 2 /\ Len(wire[1]) = 1
    /\ Len(wire) <= 2

C18_Step ==
    /\ (wr'.pc = "read" /\ wr.pc # "read") => wr.pc = "prime"
    /\ (wr'.pc = "send" /\ wr.pc # "send") =>
          /\ wr.pc \in {"prime", "read"}
          /\ \E current \in C18_ReadResults :
                wr'.frame = <<5, 0, 0, 0>> \o SerializeToString(ToMessage(
                    Update(IF current = NoSettings THEN DefaultSettings
                           ELSE current, wr.partial)))
    /\ ev' = "write_ok" => wr.pc = "send" /\ wire' = Append(wire, wr.frame)

\* C18 (SpecSettings): async_write_settings hands exactly one priming
\* command of the right kind to the link before anything else; it reads
\* the current settings (the defaults if the read gives nothing), merges,
\* and only then hands over the settings frame [5, 0, 0, 0] + payload, as
\* the second and last frame of the call.
C18_WriteOrder == []C18_Frames /\ [][C18_Step]_vars

\* C18 witness: a brightness write to a device whose settings could not be
\* read has returned: scene start, then the frame merged from the defaults
C18_WrittenFromDefaults ==
    /\ ev = "write_ok"
    /\ lastPut = NoSettings
    /\ wire[1] = <<61>>
    /\ wrote.sent = ToMessage(Update(DefaultSettings, wrote.partial))

\* the signed 16-bit integer two bytes spell, low byte first
C19_Int16LE(lo, hi) ==
    IF lo + 256 * hi >= 32768 THEN lo + 256 * hi - 65536 ELSE lo + 256 * hi

C20_ForecastOnlyExtremes ==
    (built # NotBuilt /\ forecast # <<>>) =>
        LET alone == process_forecast_data(forecast, <<>>, now)
        IN  /\ built.data.forecast_min_temp = alone.forecast_min_temp
            /\ built.data.forecast_max_temp = alone.forecast_max_temp
            /\ (built.user = << <<>>, <<>> >> /\ alone.forecast_min_temp # <<>>) =>
                  built.gradient = <<alone.forecast_min_temp[1],
                                     alone.forecast_max_temp[1]>>

\* ======================================================= claims C21..C30
C21_Between(x, a, b) == (a <= x /\ x <= b) \/ (b <= x /\ x <= a)

\* C21 (SpecColor): for min < max, interpolate_color gives colour A at
\* min and below, colour B at max and above, the truncated channel-wise
\* midpoint of A and B at the midpoint, and always a 24-bit colour whose
\* channels lie between those of A and B.
C21_Interpolation ==
    (color # NoColor /\ color.args[2] < color.args[3]) =>
        LET value == color.args[1]
            min_val == color.args[2]
            max_val == color.args[3]
            A == hex_to_rgb(color.args[4])
            B == hex_to_rgb(color.args[5])
            got == hex_to_rgb(color.hex)
        IN  /\ color.hex \in 0..16777215
            /\ \A c \in 1..3 : C21_Between(got[c], A[c], B[c])
            /\ value <= min_val => color.hex = color.args[4]
            /\ value >= max_val => color.hex = color.args[5]
            /\ 2 * value = min_val + max_val =>
                  \A c \in 1..3 : got[c] = (A[c] + B[c]) \div 2

\* C21 witness: the midpoint of 0x123456 and 0x80FF01 has been computed
\* (channels 0x49, 0x99, 0x2B)
C21_MidpointTaken ==
    /\ color # NoColor
    /\ color.args = <<10, 0, 20, 1193046, 8453889>>
    /\ color.hex = 4823339

\* C22 (Spec): at most one transport connection opened by the manager is
\* live at any moment.
C22_OneLiveConnection == Cardinality(connected) <= 1

\* a step of p in which a connect attempt fails
C23_Fails(p) ==
    /\ ev' \in {"failed", "attempt_failed"}
    /\ proc'[p] # proc[p]

C23_Step(p) ==
    /\ (C23_Fails(p) /\ reconnect_attempts' < max_reconnect_attempts) =>
          /\ reconnect_attempts' = reconnect_attempts + 1
          /\ proc'[p].pc = "backoff"
          /\ proc'[p].timer = BackoffBase * reconnect_attempts'
          /\ is_connecting'
    /\ (proc[p].pc = "backoff" /\ proc[p].timer > 0) =>
          is_connecting /\ proc'[p].pc = "backoff"
    /\ (proc[p].pc \notin ConnectBody /\ proc'[p].pc \in ConnectBody
            /\ reconnect_attempts \in 1..(max_reconnect_attempts - 1)) =>
          sinceFail >= BackoffBase * reconnect_attempts

C24_ProbeOver ==
    /\ proc[Loop].pc \in {"probe", "probe_disc"}
    /\ proc'[Loop].pc \notin {"probe", "probe_disc", "dead"}

\* the probe read raised: _disconnect has a disconnect to await, or it
\* has just returned, or the probed connection is down
C24_ProbeFailed ==
    \/ proc[Loop].pc = "probe" /\ proc'[Loop].pc = "probe_disc"
    \/ C24_ProbeOver /\ proc[Loop].pc = "probe_disc"
    \/ C24_ProbeOver /\ proc[Loop].pc = "probe" /\ proc[Loop].conn \notin connected

\* the probe read returned on a link that is connected
C24_ProbeSucceeded ==
    C24_ProbeOver /\ proc[Loop].pc = "probe" /\ IsConnected

\* after the sleep a probe is issued exactly when the link is connected,
\* and a probe that returns leaves the counter at 0
C24_WakeAndSuccess ==
    /\ (proc[Loop].pc = "sleep60" /\ proc[Loop].timer = 0
            /\ proc'[Loop] # proc[Loop] /\ proc'[Loop].pc # "dead") =>
          (proc'[Loop].pc = "probe" <=> IsConnected)
    /\ proc'[Loop].pc = "probe" => proc[Loop].pc \in {"probe", "sleep60"}
    /\ C24_ProbeSucceeded => reconnect_attempts' = 0

\* C24 as stated (SpecCallers): after the 60 s sleep the loop probes if and
\* only if the link is connected; a failed probe clears the handle and the
\* loop's next step is a connect attempt; a successful probe leaves the
\* retry counter at 0.
C24_ProbeThenConnect ==
    [][/\ C24_WakeAndSuccess
       /\ (C24_ProbeFailed /\ C24_ProbeOver) =>
             client' = None /\ proc'[Loop].pc \in ConnectBody]_vars

\* C24 amended (SpecCallers): as above, but after a failed probe the loop
\* connects unless a connect started by send_command is in flight, in
\* which case it goes back to its 60 s sleep.
C24_ProbeThenConnectUnlessBusy ==
    [][/\ C24_WakeAndSuccess
       /\ (C24_ProbeFailed /\ C24_ProbeOver) =>
             /\ client' = None
             /\ IF is_connecting
                THEN proc'[Loop] = Sleeping("sleep60", HealthCheckInterval)
                ELSE proc'[Loop].pc \in ConnectBody]_vars

\* C24 witness: the probe has failed on the connected link and its
\* _disconnect is under way
C24_ProbeHasFailed ==
    /\ proc[Loop].pc = "probe_disc"
    /\ proc[Loop].conn = client /\ IsConnected
    /\ ~is_connecting

\* the step ends a _disconnect run by send_command or by the loop, or is
\* the disconnect callback
C25_Disconnects ==
    \/ ev' \in {"dropped", "send_raised"}
    \/ /\ proc[Loop].pc \in {"probe", "probe_disc"}
       /\ proc'[Loop].pc \notin {"probe", "probe_disc", "dead"}
       /\ (proc[Loop].pc = "probe" => proc[Loop].conn \notin connected)

\* in which the loop or the caller does not go on to a connect attempt
C25_NothingElse ==
    \A p \in Procs : proc'[p].pc \notin ConnectBody \/ proc[p].pc \in ConnectBody

C25_Step ==
    C25_Disconnects =>
        /\ client' = None
        /\ UNCHANGED <<connection_callbacks, cacheVars>>
        /\ C25_NothingElse => UNCHANGED <<reconnect_attempts, is_connecting>>

\* C25 (SpecCallers): _disconnect and the disconnect callback leave the
\* handle cleared and do not change the retry counter, the connecting
\* flag, the listener list or the settings cache.
C25_DisconnectFrame == [][C25_Step]_vars

\* C25 witness: the callback has run while a connect was notifying its
\* listeners, and the flag is still set
C25_DroppedWhileConnecting ==
    /\ ev = "dropped" /\ client = None
    /\ is_connecting
    /\ \E p \in Procs : proc[p].pc = "notify"

\* the step unwinds the loop out of a connect attempt
C26_CancelledInConnect == InConnect(Loop) /\ proc'[Loop].pc = "dead"

\* C26 (Spec): a loop cancelled inside a connect attempt leaves the
\* connecting flag false and the retry counter as a first start finds it,
\* at 0; when stop_connection has returned no connected handle is held.
C26_Step ==
    /\ C26_CancelledInConnect => ~is_connecting' /\ reconnect_attempts' = 0
    /\ ev' = "stop_ok" => ~ConnUp(client', connected')

C26_CleanUnwind == [][C26_Step]_vars

\* C27 (SpecDecode): when the characteristic read inside
\* async_read_current_settings raises, the call returns no snapshot and
\* the transport handle is cleared by then.
C27_ReadFailureDisconnects ==
    ev = "read_failed" =>
        /\ readResult = NoSettings
        /\ client = None
        /\ ~IsConnected

\* the read returns bytes that strip to nothing or do not deserialize
C28_Undecodable ==
    /\ rd = "read" /\ rd' = "idle" /\ ev' # "read_failed"
    /\ \E kind \in Framings :
          LET protobuf_data == StripFraming(Framed(kind, dev))
          IN  /\ Len(protobuf_data) = 0 \/ ~ParseFromString(protobuf_data).ok
              /\ readResult' = DecodeSettings(Framed(kind, dev))

\* C28 (SpecDecode): a read whose bytes are empty after stripping or do
\* not deserialize returns no snapshot, leaves the cache as it was and
\* leaves the link connected.
C28_DecodeErrorNotFatal ==
    [][C28_Undecodable =>
          /\ readResult' = NoSettings
          /\ ev' = "read_none"
          /\ UNCHANGED <<cacheVars, client, connected>>
          /\ ConnUp(client', connected')]_vars

\* C28 witness: bytes that do not deserialize have been read while the
\* cache held an expired snapshot, which is still there
C28_UndecodableRead ==
    /\ ev = "read_none" /\ rd = "idle" /\ readResult = NoSettings
    /\ dev # <<>> /\ IsConnected
    /\ cached_settings # NoSettings

\* C29 (SpecText): for every text the encoder returns a sequence of bytes,
\* each in 0..255, and does not raise.
C29_EncodingTotal ==
    encoded # NotEncoded =>
        /\ ~encoded.raised
        /\ \A i \in 1..Len(encoded.bytes) : encoded.bytes[i] \in 0..255

\* the seconds left of every pending scene-stop task after d more seconds
C30_After(d) ==
    [i \in 1..Len(sceneStops) |->
        IF sceneStops[i] > d THEN sceneStops[i] - d ELSE 0]

C30_Step ==
    /\ ev' = "scene_stop" =>
          /\ sceneStops # <<>> /\ Head(sceneStops) = 0
          /\ sceneStops' = Tail(sceneStops)
    /\ Len(sceneStops') > Len(sceneStops) =>
          /\ ev' = "write_ok" /\ wr.pc = "send"
          /\ "displayBrightness" \in DOMAIN wr.partial
          /\ wire' = Append(wire, wr.frame)
          /\ sceneStops' = Append(sceneStops, 3)
    /\ (wr.pc # "idle" /\ wr'.pc = "idle"
            /\ (ev' # "write_ok" \/ "displayBrightness" \notin DOMAIN wr.partial)) =>
          sceneStops' = sceneStops
    /\ Len(sceneStops') = Len(sceneStops) => sceneStops' = C30_After(now' - now)

\* C30 (SpecSettings): a scene stop is sent only by a delayed task whose
\* 3 seconds are over; such a task is created only when a write whose
\* partial holds displayBrightness has had its settings frame written,
\* with 3 seconds to go; any other write, and a write whose frame failed,
\* creates none.
C30_SceneStopOnlyAfterBrightnessWrite == [][C30_Step]_vars

\* C30 witness: a scene stop has been sent, 3 seconds or more after the
\* start, and no task is left
C30_SceneStopSent ==
    /\ ev = "scene_stop" /\ sceneStops = <<>>
    /\ now >= StartTime + SceneStopDelay
    /\ IsConnected

\* ======================================================= claims C31..C40

\* what the read step of the running write can have returned: the fresh
\* cache entry (nothing, on a link that is down) or the decoded answer
C31_Bases ==
    LET got == IF wr.pc = "prime" THEN {get_cached_settings}
               ELSE {DecodeSettings(Framed(kind, dev)) : kind \in Framings}
    IN  {[read |-> r, base |-> IF r = NoSettings THEN DefaultSettings ELSE r] :
         r \in got}

C31_Defaults ==
    [nightModeEnabled |-> 1, pointsAlwaysEnabled |-> 0,
     displayBrightness |-> 128, timeModeEnable |-> 1, timeFormat12 |-> 0,
     permanentDND |-> 0, permanentMute |-> 0, dateFormat |-> 0,
     mgrUserActivityTimeout |-> 600]

C31_Merged(b) ==
    /\ DOMAIN wr'.msg = FieldSet
    /\ \A f \in FieldSet :
          wr'.msg[f] = IF f \in DOMAIN wr.partial THEN wr.partial[f]
                       ELSE b.base[f]
    /\ LET sent == ParseFromString(Drop(wr'.frame, 4))
       IN  sent.ok /\ sent.msg = wr'.msg
    /\ b.read = NoSettings => b.base = C31_Defaults
    /\ cached_settings' = IF wr.pc = "read" /\ b.read # NoSettings
                          THEN b.read ELSE cached_settings

C31_Step ==
    /\ (wr'.pc = "send" /\ wr.pc # "send") => \E b \in C31_Bases : C31_Merged(b)
    /\ (wr.pc = "send" /\ wr'.pc = "idle") => cached_settings' = cached_settings

\* C31 (SpecSettings): the settings frame async_write_settings builds
\* carries all nine fields: a field named in the partial has the partial's
\* value, every other field the value of the base, which is what the read
\* step returned or, when it returned nothing, the hard-coded defaults;
\* the merge leaves the snapshot in the cache as the read step left it.
C31_FullFrameMerge == [][C31_Step]_vars

\* C31 witness: a date format written over a cached snapshot of a device
\* set up differently: eight fields of the snapshot and the new format are
\* in the message, and the cache still holds the snapshot
C31_MergedOverSnapshot ==
    /\ wr.pc = "send"
    /\ cached_settings = OtherSettings
    /\ DOMAIN wr.partial = {"dateFormat"} /\ wr.partial.dateFormat = 0
    /\ wr.msg = [OtherSettings EXCEPT !.dateFormat = 0]

\* the index the claim asks for, counted from 0: the first entry at or
\* after the current hour, 0 when there is none
C32_StartIndex(fc, current_hour) ==
    LET reached == {i \in 1..Len(fc) :
                      /\ fc[i].dict /\ fc[i].datetime # <<>>
                      /\ fc[i].datetime[1] >= current_hour}
    IN  IF reached = {} THEN 0
        ELSE (CHOOSE i \in reached : \A j \in reached : i <= j) - 1

\* C32 (SpecForecast): the start index the builder chooses is the smallest
\* index whose hour-truncated timestamp is at or after the current hour,
\* and 0 when no entry qualifies.
C32_StartAtCurrentHour ==
    (built # NotBuilt /\ built.sent) =>
        built.data.current_hour_index = C32_StartIndex(forecast, now)

\* the value the claim has an entry contribute
C33_Value(hour) ==
    IF hour.dict /\ hour.temperature # <<>> THEN hour.temperature[1] ELSE 20

\* the entries the temperatures are taken from: up to 23 from the start
\* index on, the last entry of the list standing in where the list ends
C33_Taken ==
    LET index == built.data.current_hour_index
    IN  [i \in 1..23 |-> IF index + i <= Len(forecast) THEN forecast[index + i]
                         ELSE forecast[Len(forecast)]]

\* C33 (SpecForecast): every entry taken contributes exactly one value to
\* the forecast tail, in order: its temperature, or 20 when it has none
\* that parses; no entry is dropped, so the tail is as long as the entries
\* taken are many.
C33_OneValuePerEntry ==
    (built # NotBuilt /\ built.sent) =>
        /\ Len(built.data.forecast_temps) = Len(C33_Taken)
        /\ \A i \in 1..Len(built.data.forecast_temps) :
              built.data.forecast_temps[i] = C33_Value(C33_Taken[i])

\* C34 (SpecForecast): the gradient range is the caller's pair when both
\* bounds are given; otherwise it is (forecast_min, forecast_max) whenever
\* these are defined, whatever integers they are, and 0 and 30 only stand
\* in for a value that is absent.
C34_GradientRange ==
    (built # NotBuilt /\ built.sent) =>
        LET fmin == built.data.forecast_min_temp
            fmax == built.data.forecast_max_temp
        IN  built.gradient =
                IF built.user[1] # <<>> /\ built.user[2] # <<>>
                THEN <<built.user[1][1], built.user[2][1]>>
                ELSE <<IF fmin = <<>> THEN 0 ELSE fmin[1],
                       IF fmax = <<>> THEN 30 ELSE fmax[1]>>

\* C35 (SpecForecast): the max and min fields of the ForecastScene are
\* forecast_max and forecast_min as the builder computed them, for every
\* integer they can be.
C35_SceneRange ==
    (built # NotBuilt /\ built.sent /\ built.data.forecast_max_temp # <<>>) =>
        /\ built.scene.max = built.data.forecast_max_temp[1]
        /\ built.scene.min = built.data.forecast_min_temp[1]

C36_Step(p) ==
    /\ (proc[p].pc = "idle" /\ proc'[p] # proc[p]) =>
          IsConnected /\ proc'[p] = Holding("write_ack", client)
    /\ (proc[p].pc = "idle" /\ ~IsConnected /\ ev' \in {"refused", "accepted"}) =>
          ev' = "refused"
    /\ ev' = "refused" =>
          /\ ~IsConnected
          /\ UNCHANGED <<proc, client, connected, is_connecting,
                         reconnect_attempts, sinceFail, cacheVars, wire>>

\* C36 (SpecFacade): a notice, timer, forecast, settings write or bare
\* command called on a link that is not connected returns False at once:
\* no write is handed to the transport, no connect attempt starts, and the
\* handle, the connecting flag, the retry counter and the cache are what
\* they were.
C36_RefusedWhenDown == [][\A p \in Senders : C36_Step(p)]_vars

\* C36 witness: an operation was refused while the loop, two failures
\* counted, was in its backoff sleep
C36_RefusedDuringBackoff ==
    /\ ev = "refused"
    /\ reconnect_attempts = 2 /\ is_connecting
    /\ proc[Loop].pc = "backoff"

\* C37 (Spec): in every reachable state the retry counter lies between 0
\* and max_attempts (3), whatever the loop, the send_command callers and
\* stop and start do.
C37_CounterBounded == reconnect_attempts \in 0..3

\* the disconnect callback runs and finds a connected handle held
C38_CallbackOnLiveHandle == ev' = "dropped" /\ ConnUp(client, connected)

C38_Step ==
    (C38_CallbackOnLiveHandle /\ client' = None) => client \notin connected'

\* C38 (SpecCallers): the disconnect callback clears the handle only when
\* the connection that dropped is the one held; the callback of a
\* superseded connection leaves a newer, connected handle in place.
C38_OnlyOwnCallbackClears == [][C38_Step]_vars

\* a write returns success: what the device holds afterwards is what it
\* held before with the partial's fields replaced
C39_Step ==
    (ev' = "write_ok" /\ dev # <<>>) =>
        ParseFromString(dev').msg = Update(ParseFromString(dev).msg, wr.partial)

\* C39 (SpecSettings): over a connected transport that answers reads with
\* what the device holds, every successful write leaves the device with
\* its earlier settings and the partial applied, so that after any
\* sequence of writes, at any spacing, the device holds the initial
\* snapshot with all partials applied in call order.
C39_WritesAccumulate == [][C39_Step]_vars

\* the cache holds a snapshot less than 60 seconds old
C40_Fresh ==
    /\ cached_settings # NoSettings
    /\ settings_read_time # None
    /\ now - settings_read_time < 60

C40_Step ==
    /\ (rd = "idle" /\ rd' = "read") => ~C40_Fresh /\ IsConnected
    /\ (rd = "idle" /\ ev' \in {"read_ok", "read_none"}) =>
          /\ C40_Fresh \/ ~IsConnected
          /\ rd' = "idle"
          /\ readResult' = IF C40_Fresh THEN cached_settings ELSE NoSettings
          /\ UNCHANGED <<linkVars, cacheVars, dev>>
          /\ Len(wire') <= Len(wire)
    /\ (wr.pc = "prime" /\ wr' # wr) =>
          (wr'.pc = "read" <=> ~C40_Fresh /\ IsConnected)
    /\ (cached_settings' # cached_settings
          \/ settings_read_time' # settings_read_time) =>
          /\ rd = "read" \/ wr.pc = "read"
          /\ settings_read_time' = now
          /\ \E kind \in Framings :
                /\ DecodeSettings(Framed(kind, dev)) # NoSettings
                /\ cached_settings' = DecodeSettings(Framed(kind, dev))

====
